---- MODULE Spec2Model ----
(***************************************************************************)
(* Paper-trading engine of evelbrus4/tbank55: the position ledger          *)
(* (VirtualPortfolio), its execution-cost model (SpreadCalculator,         *)
(* SlippageSimulator), the trading calendar (TradingRestrictions), the     *)
(* risk governor (RiskManager), the persistence of the ledger (_save,      *)
(* _load) and the delayed execution of orders (OrderExecutionSimulator).   *)
(*                                                                         *)
(* Money and prices are Decimal in the source.  Here they are integers in  *)
(* kopecks (0.01 rouble); every division goes through ExactDiv, which has  *)
(* no value unless the quotient is exact, so the model never rounds where  *)
(* Decimal would not.  None is <<>>, a present value x is <<x>>.           *)
(***************************************************************************)
EXTENDS Integers, Sequences, FiniteSets, TLC

VARIABLES
    cfg,                  \* the configuration the ledger was constructed with
    clock,                \* index into Timeline: what datetime.now() returns
    balance,              \* data["balance"]
    used_margin,          \* data["used_margin"]
    positions,            \* data["positions"]: ticker -> position record
    history,              \* data["history"]
    balance_history,      \* data["balance_history"]
    next_trade_id,        \* data["next_trade_id"]
    total_commission,     \* data["total_commission"]
    total_slippage_cost,  \* data["total_slippage_cost"]
    total_spread_cost,    \* data["total_spread_cost"]
    atr_history,          \* data["atr_history"]: ticker -> sequence of ATR values
    initial_balance,      \* data["initial_balance"]
    risk_manager,         \* the RiskManager's fields
    snapshot,             \* the JSON file _save last wrote
    last,                 \* what the most recent public call was and how it ended
    ncalls,               \* number of update_position / can_open_position calls so far
    pending_orders,       \* OrderExecutionSimulator.pending_orders: order_id -> order
    order_counter,        \* OrderExecutionSimulator.order_counter
    wall,                 \* the order simulator's datetime.now(), in seconds
    in_flight             \* caller -> the update_position call it has between lines 346 and 349

ledger == <<balance, used_margin, positions, history, balance_history,
            next_trade_id, total_commission, total_slippage_cost,
            total_spread_cost, atr_history>>

orders == <<pending_orders, order_counter, wall>>

vars == <<cfg, clock, balance, used_margin, positions, history, balance_history,
          next_trade_id, total_commission, total_slippage_cost,
          total_spread_cost, atr_history, initial_balance, risk_manager, snapshot,
          last, ncalls, pending_orders, order_counter, wall, in_flight>>

(***************************************************************************)
(* Bounds of the model.                                                    *)
(***************************************************************************)
MaxCalls == 3

\* calls of update_position over the runs that share one file
MaxStoreCalls == 2

\* orders created in the order simulator
MaxOrders == 2

(***************************************************************************)
(* Generic helpers.                                                        *)
(***************************************************************************)
None == <<>>

Some(x) == <<x>>

IsNone(o) == o = <<>>

Abs(x) == IF x < 0 THEN -x ELSE x

\* x * b <= a  iff  x <= FloorDiv(a, b), and x * b >= a  iff  x >= CeilDiv(a, b),
\* for b > 0: a comparison of x with the fraction a / b
FloorDiv(a, b) == a \div b

CeilDiv(a, b) == -((-a) \div b)

\* Decimal division whose result the model can represent; undefined otherwise.
ExactDiv(a, b) == CHOOSE q \in {a \div b} : q * b = a

RECURSIVE SumSeq(_)
SumSeq(s) == IF s = <<>> THEN 0 ELSE Head(s) + SumSeq(Tail(s))

\* Python truthiness of an optional number: None and 0 are falsy.
Truthy(o) == o /= <<>> /\ o[1] /= 0

(***************************************************************************)
(* Rationals n/d (d > 0), for the float percentages of the cost model.     *)
(***************************************************************************)
Rat(n, d) == [n |-> n, d |-> d]

RLeq(a, b) == a.n * b.d <= b.n * a.d

RMin(a, b) == IF RLeq(a, b) THEN a ELSE b

RMax(a, b) == IF RLeq(a, b) THEN b ELSE a

RAdd(a, b) == Rat(a.n * b.d + b.n * a.d, a.d * b.d)

RMul(a, b) == Rat(a.n * b.n, a.d * b.d)

(***************************************************************************)
(* Configuration (src/config/trading_config.py).  Percentages are whole    *)
(* percents, rates are rationals, money is kopecks.  RealisticConfig has   *)
(* every component enabled, as TradingConfig has; its spread and slippage  *)
(* percentages are coarse so that every fill price is a whole number of    *)
(* kopecks.  TestingConfig is the source's preset with every component     *)
(* disabled.  max_open_positions is 2, the number of tickers of the model. *)
(***************************************************************************)
RealisticConfig ==
    [ name |-> "realistic",
      SLIPPAGE_CONFIG |-> [ enabled |-> TRUE,
                            base_slippage_percent |-> Rat(10, 1),
                            volume_factor_per_10_lots |-> Rat(1, 1),
                            volatility_multiplier |-> Rat(2, 1),
                            max_slippage_percent |-> Rat(10, 1) ],
      SPREAD_CONFIG |-> [ enabled |-> TRUE,
                          base_spread_percent |-> Rat(20, 1),
                          volatility_multiplier |-> Rat(3, 2),
                          min_spread_percent |-> Rat(1, 1),
                          max_spread_percent |-> Rat(20, 1) ],
      RISK_CONFIG |-> [ enabled |-> TRUE,
                        max_drawdown_percent |-> 20,
                        risk_per_trade_percent |-> 2,
                        max_open_positions |-> 2,
                        daily_loss_limit_percent |-> 5,
                        max_position_size_percent |-> 25 ],
      GENERAL_CONFIG |-> [ initial_balance |-> 20000000,
                           commission_rate |-> Rat(5, 10000) ] ]

TestingConfig ==
    [ name |-> "testing",
      SLIPPAGE_CONFIG |-> [ enabled |-> FALSE,
                            base_slippage_percent |-> Rat(0, 1),
                            volume_factor_per_10_lots |-> Rat(0, 1),
                            volatility_multiplier |-> Rat(0, 1),
                            max_slippage_percent |-> Rat(0, 1) ],
      SPREAD_CONFIG |-> [ enabled |-> FALSE,
                          base_spread_percent |-> Rat(0, 1),
                          volatility_multiplier |-> Rat(0, 1),
                          min_spread_percent |-> Rat(0, 1),
                          max_spread_percent |-> Rat(0, 1) ],
      RISK_CONFIG |-> [ enabled |-> FALSE,
                        max_drawdown_percent |-> 100,
                        risk_per_trade_percent |-> 100,
                        max_open_positions |-> 100,
                        daily_loss_limit_percent |-> 100,
                        max_position_size_percent |-> 100 ],
      GENERAL_CONFIG |-> [ initial_balance |-> 20000000,
                           commission_rate |-> Rat(5, 10000) ] ]

(***************************************************************************)
(* Trading calendar (src/utils/trading_restrictions.py).  A datetime is    *)
(* [weekday, month, day, minute]: weekday 0 = Monday, minute of the day.   *)
(***************************************************************************)
Time(h, m) == h * 60 + m

TRADING_START == Time(10, 0)

TRADING_END == Time(23, 50)

CLEARING_WINDOWS == { <<Time(14, 0), Time(14, 5)>>, <<Time(18, 45), Time(19, 0)>> }

HOLIDAYS == { <<1, 1>>, <<1, 2>>, <<1, 3>>, <<1, 4>>, <<1, 5>>, <<1, 6>>, <<1, 7>>,
              <<1, 8>>, <<2, 23>>, <<3, 8>>, <<5, 1>>, <<5, 9>>, <<6, 12>>, <<11, 4>> }

MIN_POSITION_SIZE == 1

is_trading_hours(dt) ==
    IF dt.minute < TRADING_START THEN FALSE
    ELSE IF dt.minute > TRADING_END THEN FALSE
    ELSE IF \E w \in CLEARING_WINDOWS : w[1] <= dt.minute /\ dt.minute <= w[2] THEN FALSE
    ELSE TRUE

is_trading_day(dt) ==
    IF dt.weekday >= 5 THEN FALSE
    ELSE IF <<dt.month, dt.day>> \in HOLIDAYS THEN FALSE
    ELSE TRUE

can_trade(dt) ==
    IF ~is_trading_day(dt) THEN FALSE
    ELSE IF ~is_trading_hours(dt) THEN FALSE
    ELSE TRUE

validate_position_size(lots) ==
    LET abs_lots == Abs(lots)
    IN  IF abs_lots = 0 THEN TRUE
        ELSE IF abs_lots < MIN_POSITION_SIZE THEN FALSE
        ELSE TRUE

(***************************************************************************)
(* The wall clock: the instants datetime.now() takes during a run, in      *)
(* order.  Friday 6 March noon (trading), the same day inside the day      *)
(* clearing window (no trading), Monday 9 March noon (trading, a new       *)
(* calendar date).                                                         *)
(***************************************************************************)
Timeline ==
    << [weekday |-> 4, month |-> 3, day |-> 6, minute |-> Time(12, 0)],
       [weekday |-> 4, month |-> 3, day |-> 6, minute |-> Time(14, 2)],
       [weekday |-> 0, month |-> 3, day |-> 9, minute |-> Time(12, 0)] >>

now == Timeline[clock]

\* datetime.now().date()
today == <<now.month, now.day>>

\* datetime.now().strftime('%Y-%m-%d %H:%M:%S'): the instant, as its index
timestamp == clock

(***************************************************************************)
(* Spread (src/utils/spread.py).  atr is an optional number, avg_atr an    *)
(* optional rational, min_price_increment an optional amount.              *)
(***************************************************************************)
\* volatility_ratio > 1.0, where the source's guard lets it be computed
HighVolatility(atr, avg_atr) ==
    /\ atr /= None
    /\ avg_atr /= None
    /\ avg_atr[1].n > 0
    /\ atr[1] * avg_atr[1].d > avg_atr[1].n

\* (volatility_ratio - 1.0) * base * multiplier
VolatilityAdjustment(atr, avg_atr, base, multiplier) ==
    RMul(Rat(atr[1] * avg_atr[1].d - avg_atr[1].n, avg_atr[1].n), RMul(base, multiplier))

\* the bug of rounding up: n/d raised to the next integer (d > 0)
QuantizeUnit_ceiling(n, d) == -((-n) \div d)

\* Decimal.quantize(Decimal('1')): n/d rounded half-even to an integer (d > 0)
QuantizeUnit(n, d) ==
    LET q == n \div d
        r == n % d
    IN  IF 2 * r < d THEN q
        ELSE IF 2 * r > d THEN q + 1
        ELSE IF q % 2 = 0 THEN q ELSE q + 1

\* steps 1-3 of calculate_spread: the clamped spread, in percent
spread_percent(sc, atr, avg_atr) ==
    LET base == sc.base_spread_percent
        raw  == IF HighVolatility(atr, avg_atr)
                THEN RAdd(base, VolatilityAdjustment(atr, avg_atr, base, sc.volatility_multiplier))
                ELSE base
    IN  RMax(sc.min_spread_percent, RMin(raw, sc.max_spread_percent))

calculate_spread(sc, mid_price, atr, avg_atr, min_price_increment) ==
    LET pct == spread_percent(sc, atr, avg_atr)
    IN  IF min_price_increment /= None /\ min_price_increment[1] > 0
        THEN LET inc     == min_price_increment[1]
                 rounded == QuantizeUnit(mid_price * pct.n, pct.d * 100 * inc) * inc
             IN  IF rounded < inc THEN inc ELSE rounded
        ELSE ExactDiv(mid_price * pct.n, pct.d * 100)

get_bid_ask_prices(sc, mid_price, atr, avg_atr, min_price_increment) ==
    LET spread      == calculate_spread(sc, mid_price, atr, avg_atr, min_price_increment)
        half_spread == ExactDiv(spread, 2)
    IN  [bid_price |-> mid_price - half_spread, ask_price |-> mid_price + half_spread]

\* the bug of returning the bid for either direction
get_execution_price_bid(sc, mid_price, direction, atr, avg_atr, min_price_increment) ==
    get_bid_ask_prices(sc, mid_price, atr, avg_atr, min_price_increment).bid_price

get_execution_price(sc, mid_price, direction, atr, avg_atr, min_price_increment) ==
    LET ba == get_bid_ask_prices(sc, mid_price, atr, avg_atr, min_price_increment)
    IN  IF direction = "buy" THEN ba.ask_price ELSE ba.bid_price

(***************************************************************************)
(* Slippage (src/utils/slippage.py).  random_factor is the value           *)
(* random.uniform(0.8, 1.2) returned, a rational.                          *)
(***************************************************************************)
\* steps 1-5 of calculate_slippage: the slippage after the cap and the jitter, in percent
slippage_percent(ss, lots, atr, avg_atr, random_factor) ==
    LET abs_lots == Abs(lots)
        base     == ss.base_slippage_percent
        volume   == RMul(Rat(abs_lots \div 10, 1), ss.volume_factor_per_10_lots)
        withVol  == RAdd(base, volume)
        raw      == IF HighVolatility(atr, avg_atr)
                    THEN RAdd(withVol, VolatilityAdjustment(atr, avg_atr, base, ss.volatility_multiplier))
                    ELSE withVol
        capped   == RMin(raw, ss.max_slippage_percent)
    IN  RMul(capped, random_factor)

\* the bug of lowering the price for either direction
calculate_slippage_always_down(ss, expected_price, lots, direction, atr, avg_atr, random_factor) ==
    LET pct == slippage_percent(ss, lots, atr, avg_atr, random_factor)
    IN  ExactDiv(expected_price * (pct.d * 100 - pct.n), pct.d * 100)

calculate_slippage(ss, expected_price, lots, direction, atr, avg_atr, random_factor) ==
    LET pct == slippage_percent(ss, lots, atr, avg_atr, random_factor)
    IN  IF direction = "buy"
        THEN ExactDiv(expected_price * (pct.d * 100 + pct.n), pct.d * 100)
        ELSE ExactDiv(expected_price * (pct.d * 100 - pct.n), pct.d * 100)

(***************************************************************************)
(* Risk governor (src/utils/risk_manager.py).  rm is the record of the     *)
(* RiskManager's fields; an operator that changes them returns the new     *)
(* record.  A percentage is compared as the fraction it is.                *)
(***************************************************************************)
RiskManager(rc) ==
    [ max_drawdown        |-> rc.max_drawdown_percent,
      risk_per_trade      |-> rc.risk_per_trade_percent,
      max_positions       |-> rc.max_open_positions,
      daily_loss_limit    |-> rc.daily_loss_limit_percent,
      max_position_size   |-> rc.max_position_size_percent,
      peak_balance        |-> 0,
      daily_start_balance |-> 0,
      daily_reset_date    |-> None,
      trading_paused      |-> FALSE,
      pause_reason        |-> None ]

update_peak_balance(rm, current_balance) ==
    IF current_balance > rm.peak_balance
    THEN [rm EXCEPT !.peak_balance = current_balance]
    ELSE rm

\* calculate_drawdown(current_balance) >= max_drawdown
DrawdownReached(rm, current_balance) ==
    IF rm.peak_balance = 0
    THEN 0 >= rm.max_drawdown
    ELSE rm.peak_balance - current_balance >= CeilDiv(rm.max_drawdown * rm.peak_balance, 100)

\* TRUE when trading may go on
check_max_drawdown(rm, current_balance) == ~DrawdownReached(rm, current_balance)

\* the bug of taking a new baseline at every evaluation
reset_daily_tracking_always(rm, current_balance, date) ==
    [rm EXCEPT !.daily_start_balance = current_balance, !.daily_reset_date = Some(date)]

reset_daily_tracking(rm, current_balance, date) ==
    IF rm.daily_reset_date /= Some(date)
    THEN [rm EXCEPT !.daily_start_balance = current_balance,
                    !.daily_reset_date = Some(date)]
    ELSE rm

\* calculate_daily_pnl(current_balance) <= -daily_loss_limit
DailyLossReached(rm, current_balance) ==
    IF rm.daily_start_balance = 0
    THEN 0 <= -rm.daily_loss_limit
    ELSE IF rm.daily_start_balance > 0
    THEN current_balance - rm.daily_start_balance
            <= FloorDiv(-rm.daily_loss_limit * rm.daily_start_balance, 100)
    ELSE current_balance - rm.daily_start_balance
            >= CeilDiv(-rm.daily_loss_limit * rm.daily_start_balance, 100)

\* the RiskManager after the call, and whether trading may go on
check_daily_loss_limit(rm, current_balance, date) ==
    LET rm1 == reset_daily_tracking(rm, current_balance, date)
    IN  [rm |-> rm1, ok |-> ~DailyLossReached(rm1, current_balance)]

\* the bug of refusing only above the limit
check_position_count_above(rm, current_positions) ==
    ~(current_positions > rm.max_positions)

check_position_count(rm, current_positions) ==
    ~(current_positions >= rm.max_positions)

\* RiskManager.validate_position_size(balance, position_value)
rm_validate_position_size(rm, bal, position_value) ==
    ~(position_value > FloorDiv(bal * rm.max_position_size, 100))

PauseTrading(rm, reason) ==
    [rm EXCEPT !.trading_paused = TRUE, !.pause_reason = Some(reason)]

\* the bug of counting the positions before looking at the losses
can_open_position_count_first(rm, current_balance, current_positions, position_value, date) ==
    IF ~check_position_count(rm, current_positions)
    THEN [rm |-> rm, ok |-> FALSE, reason |-> "position_count"]
    ELSE IF ~check_max_drawdown(rm, current_balance)
    THEN [rm |-> PauseTrading(rm, "max_drawdown"), ok |-> FALSE, reason |-> "max_drawdown"]
    ELSE LET daily == check_daily_loss_limit(rm, current_balance, date)
         IN  IF ~daily.ok
             THEN [rm |-> PauseTrading(daily.rm, "daily_loss"), ok |-> FALSE,
                   reason |-> "daily_loss"]
             ELSE IF ~rm_validate_position_size(daily.rm, current_balance, position_value)
             THEN [rm |-> daily.rm, ok |-> FALSE, reason |-> "position_size"]
             ELSE [rm |-> daily.rm, ok |-> TRUE, reason |-> "none"]

\* [rm: the RiskManager after the call, ok, reason]
can_open_position(rm, current_balance, current_positions, position_value, date) ==
    IF ~check_max_drawdown(rm, current_balance)
    THEN [rm |-> PauseTrading(rm, "max_drawdown"), ok |-> FALSE, reason |-> "max_drawdown"]
    ELSE LET daily == check_daily_loss_limit(rm, current_balance, date)
         IN  IF ~daily.ok
             THEN [rm |-> PauseTrading(daily.rm, "daily_loss"), ok |-> FALSE,
                   reason |-> "daily_loss"]
             ELSE IF ~check_position_count(daily.rm, current_positions)
             THEN [rm |-> daily.rm, ok |-> FALSE, reason |-> "position_count"]
             ELSE IF ~rm_validate_position_size(daily.rm, current_balance, position_value)
             THEN [rm |-> daily.rm, ok |-> FALSE, reason |-> "position_size"]
             ELSE [rm |-> daily.rm, ok |-> TRUE, reason |-> "none"]

resume_trading(rm) ==
    [rm EXCEPT !.trading_paused = FALSE, !.pause_reason = None]

\* the bug of pausing the trading from a query that finds the drawdown reached
get_risk_status_pausing(rm, current_balance, date) ==
    IF DrawdownReached(update_peak_balance(rm, current_balance), current_balance)
    THEN PauseTrading(reset_daily_tracking(update_peak_balance(rm, current_balance),
                                           current_balance, date), "max_drawdown")
    ELSE reset_daily_tracking(update_peak_balance(rm, current_balance), current_balance, date)

\* the RiskManager after get_risk_status: the watermark and the daily baseline move
get_risk_status(rm, current_balance, date) ==
    reset_daily_tracking(update_peak_balance(rm, current_balance), current_balance, date)

(***************************************************************************)
(* Position ledger (src/storage/virtual_portfolio.py).                     *)
(***************************************************************************)
\* str(x) of a Decimal: the string that holds its digits
str(x) == [decimal |-> x]

\* float(x) of a Decimal: the double nearest to it
float(x) == [float |-> x]

\* the bug of never writing the level
StrIfTruthy_never(o) == None

\* str(x) if x else None
StrIfTruthy(o) == IF Truthy(o) THEN Some(str(o[1])) ELSE None

ATR_MAX_HISTORY == 100

\* the default of data["positions"].get(ticker, {...})
FlatPosition ==
    [ lots |-> 0, avg_price |-> 0, stop_loss |-> None, take_profit |-> None,
      margin |-> 0, trade_id |-> None, opened_at |-> None,
      accumulated_commission |-> 0 ]

current_pos(ticker) ==
    IF ticker \in DOMAIN positions THEN positions[ticker] ELSE FlatPosition

\* the dictionary d with d[k] = v
DictSet(d, k, v) == [x \in DOMAIN d \cup {k} |-> IF x = k THEN v ELSE d[x]]

\* the bug of leaving the entry in place
DictDel_skipped(d, k) == d

\* the dictionary d after del d[k]
DictDel(d, k) == [x \in DOMAIN d \ {k} |-> d[x]]

\* the bug of keeping the first n elements of s: s[:n]
LastN_first(s, n) == IF Len(s) <= n THEN s ELSE SubSeq(s, 1, n)

\* the last n elements of s: s[-n:]
LastN(s, n) == IF Len(s) <= n THEN s ELSE SubSeq(s, Len(s) - n + 1, Len(s))

_update_atr_history(hist, ticker, atr, max_history) ==
    LET list     == IF ticker \in DOMAIN hist THEN hist[ticker] ELSE <<>>
        appended == Append(list, atr)
    IN  DictSet(hist, ticker,
                IF Len(appended) > max_history THEN LastN(appended, max_history)
                ELSE appended)

\* avg_atr of _calculate_execution_price: an optional rational
AverageAtr(hist, ticker, atr) ==
    IF Truthy(atr) /\ ticker \in DOMAIN hist /\ hist[ticker] /= <<>>
    THEN Some(Rat(SumSeq(hist[ticker]), Len(hist[ticker])))
    ELSE None

\* the return of _calculate_execution_price: the fill price and what the call adds
\* to total_spread_cost and total_slippage_cost
execution_result(c, expected_price, lots, after_spread, after_slippage) ==
    [ execution_price |-> after_slippage,
      spread_cost     |-> IF c.SPREAD_CONFIG.enabled
                          THEN Abs(after_spread - expected_price) * Abs(lots)
                          ELSE 0,
      slippage_cost   |-> IF c.SLIPPAGE_CONFIG.enabled
                          THEN Abs(after_slippage - expected_price) * Abs(lots)
                          ELSE 0 ]

\* step 2 of _calculate_execution_price: the slippage, on the price after the spread
apply_slippage(c, expected_price, lots, direction, atr, avg_atr, random_factor, after_spread) ==
    execution_result(c, expected_price, lots, after_spread,
        IF c.SLIPPAGE_CONFIG.enabled
        THEN calculate_slippage(c.SLIPPAGE_CONFIG, after_spread, Abs(lots), direction,
                                atr, avg_atr, random_factor)
        ELSE after_spread)

\* step 1 of _calculate_execution_price: the spread, on the expected price
apply_spread(c, expected_price, lots, direction, atr, avg_atr, random_factor) ==
    apply_slippage(c, expected_price, lots, direction, atr, avg_atr, random_factor,
        IF c.SPREAD_CONFIG.enabled
        THEN get_execution_price(c.SPREAD_CONFIG, expected_price, direction, atr, avg_atr, None)
        ELSE expected_price)

_calculate_execution_price(c, hist, ticker, expected_price, lots, direction, atr, random_factor) ==
    apply_spread(c, expected_price, lots, direction, atr, AverageAtr(hist, ticker, atr),
                 random_factor)

\* the bug of measuring the change from a flat position
diff_lots_from_flat(target_lots, cur) == target_lots

diff_lots(target_lots, cur) == target_lots - cur.lots

close_direction(cur) == IF cur.lots < 0 THEN "sell" ELSE "buy"

open_direction(target_lots) == IF target_lots < 0 THEN "buy" ELSE "sell"

\* the bug of taking the size of the position for its signed lots
close_profit_unsigned(execution_price, cur) ==
    (execution_price - cur.avg_price) * Abs(cur.lots)

close_profit(execution_price, cur) == (execution_price - cur.avg_price) * cur.lots

\* the bug of charging the close on the entry price
close_turnover_at_entry(execution_price, cur) == Abs(cur.avg_price * cur.lots)

close_turnover(execution_price, cur) == Abs(execution_price * cur.lots)

open_turnover(execution_price, diff) == Abs(execution_price * Abs(diff))

commission_on(turnover, rate) == ExactDiv(turnover * rate.n, rate.d)

\* margin_per_lot = execution_price * Decimal("0.1") when the caller gives none
effective_margin_per_lot(margin_per_lot, execution_price) ==
    IF margin_per_lot = None THEN ExactDiv(execution_price, 10) ELSE margin_per_lot[1]

\* the bug of reserving margin on the signed lots
required_margin_signed(per_lot, target_lots) == per_lot * target_lots

required_margin(per_lot, target_lots) == per_lot * Abs(target_lots)

\* the bug of counting the margin already reserved as free
available_balance_gross(bal, used) == bal

available_balance(bal, used) == bal - used

\* the bug of never refusing an open
insufficient_funds_never(required, available) == FALSE

insufficient_funds(required, available) == required > available

\* the bug of reserving the whole requirement again on a resize
margin_diff_whole(required, cur) == required

margin_diff(required, cur) == required - cur.margin

\* the bug of taking a new id on every resize
assign_trade_id_anew(cur, next_id) ==
    [trade_id |-> next_id, next_trade_id |-> next_id + 1]

\* [trade_id, next_trade_id]: the position's id, and the counter after the call
assign_trade_id(cur, next_id) ==
    IF cur.trade_id = None
    THEN [trade_id |-> next_id, next_trade_id |-> next_id + 1]
    ELSE [trade_id |-> cur.trade_id[1], next_trade_id |-> next_id]

assign_opened_at(cur, ts) == IF cur.opened_at = None THEN ts ELSE cur.opened_at[1]

\* the bug of recording the gross profit as the net profit
close_record_gross(ticker, cur, current_price, execution_price, profit, commission, ts) ==
    [ trade_id |-> cur.trade_id, ticker |-> ticker, action |-> "close",
      lots |-> cur.lots, expected_price |-> str(current_price),
      execution_price |-> str(execution_price), price |-> str(execution_price),
      profit |-> str(profit), commission |-> str(commission),
      net_profit |-> str(profit), margin_released |-> str(cur.margin),
      opened_at |-> cur.opened_at, timestamp |-> ts ]

close_record(ticker, cur, current_price, execution_price, profit, commission, ts) ==
    [ trade_id |-> cur.trade_id, ticker |-> ticker, action |-> "close",
      lots |-> cur.lots, expected_price |-> str(current_price),
      execution_price |-> str(execution_price), price |-> str(execution_price),
      profit |-> str(profit), commission |-> str(commission),
      net_profit |-> str(profit - commission), margin_released |-> str(cur.margin),
      opened_at |-> cur.opened_at, timestamp |-> ts ]

update_record(ticker, trade_id, target_lots, current_price, execution_price, stop_loss, take_profit, required, commission, ts) ==
    [ trade_id |-> Some(trade_id), ticker |-> ticker, action |-> "update",
      lots |-> target_lots, expected_price |-> str(current_price),
      execution_price |-> str(execution_price), price |-> str(execution_price),
      stop_loss |-> StrIfTruthy(stop_loss), take_profit |-> StrIfTruthy(take_profit),
      margin_reserved |-> str(required), commission |-> str(commission),
      timestamp |-> ts ]

\* serializable_data of _save, from the ledger fields given as a record
_save(d) ==
    [ balance |-> str(d.balance),
      positions |-> [k \in DOMAIN d.positions |->
          [ lots |-> d.positions[k].lots,
            avg_price |-> str(d.positions[k].avg_price),
            stop_loss |-> StrIfTruthy(d.positions[k].stop_loss),
            take_profit |-> StrIfTruthy(d.positions[k].take_profit),
            margin |-> str(d.positions[k].margin),
            trade_id |-> d.positions[k].trade_id,
            opened_at |-> d.positions[k].opened_at,
            accumulated_commission |-> str(d.positions[k].accumulated_commission) ]],
      history |-> d.history,
      used_margin |-> str(d.used_margin),
      total_commission |-> str(d.total_commission),
      total_slippage_cost |-> str(d.total_slippage_cost),
      total_spread_cost |-> str(d.total_spread_cost),
      next_trade_id |-> d.next_trade_id,
      initial_balance |-> str(d.initial_balance),
      balance_history |-> d.balance_history,
      atr_history |-> d.atr_history ]

\* self.data
Data ==
    [ balance |-> balance, initial_balance |-> initial_balance, positions |-> positions,
      history |-> history, used_margin |-> used_margin,
      total_commission |-> total_commission,
      total_slippage_cost |-> total_slippage_cost,
      total_spread_cost |-> total_spread_cost, next_trade_id |-> next_trade_id,
      balance_history |-> balance_history, atr_history |-> atr_history ]

\* what one update_position call does: [outcome, data: self.data after the call,
\* risk_manager: the RiskManager after the call, saved: whether _save ran, and the
\* call's execution_price, margin_per_lot and required_margin where it computed them]
Rejected(outcome, reason, data, rm) ==
    [ outcome |-> outcome, reason |-> reason, data |-> data, risk_manager |-> rm,
      saved |-> FALSE, execution_price |-> 0, margin_per_lot |-> 0,
      required_margin |-> 0 ]

\* the bug of recording the balance as it was before the close
append_balance_stale(hist, new_balance) == Append(hist, float(balance))

\* data["balance_history"].append(float(data["balance"]))
append_balance(hist, new_balance) == Append(hist, float(new_balance))

\* the bug of keeping only the latest records, as _update_atr_history does
append_record_capped(hist, record) == LastN(Append(hist, record), 2)

\* data["history"].append(record)
append_record(hist, record) == Append(hist, record)

\* the close branch of update_position, once the fill is known
close_position(ticker, cur, current_price, hist, fill) ==
    LET E          == fill.execution_price
        profit     == close_profit(E, cur)
        commission == commission_on(close_turnover(E, cur), cfg.GENERAL_CONFIG.commission_rate)
        released   == cur.margin
        net_profit == profit - commission
        new_balance == balance + released + net_profit
    IN  [ outcome |-> "close", reason |-> "none",
          data |-> [ Data EXCEPT
              !.balance = new_balance,
              !.used_margin = used_margin - released,
              !.total_commission = total_commission + commission,
              !.total_spread_cost = total_spread_cost + fill.spread_cost,
              !.total_slippage_cost = total_slippage_cost + fill.slippage_cost,
              !.balance_history = append_balance(balance_history, new_balance),
              !.history = append_record(history, close_record(ticker, cur, current_price, E,
                                                       profit, commission, timestamp)),
              !.positions = DictDel(positions, ticker),
              !.atr_history = hist ],
          risk_manager |-> risk_manager, saved |-> TRUE, execution_price |-> E,
          margin_per_lot |-> 0, required_margin |-> 0 ]

\* the open/resize branch of update_position, once the fill is known
open_position(ticker, cur, target_lots, current_price, stop_loss, take_profit, margin_per_lot, hist, rm, fill) ==
    LET E          == fill.execution_price
        per_lot    == effective_margin_per_lot(margin_per_lot, E)
        required   == required_margin(per_lot, target_lots)
        available  == available_balance(balance, used_margin)
        priced     == [ Data EXCEPT
                          !.total_spread_cost = total_spread_cost + fill.spread_cost,
                          !.total_slippage_cost = total_slippage_cost + fill.slippage_cost,
                          !.atr_history = hist ]
        commission == commission_on(open_turnover(E, diff_lots(target_lots, cur)),
                                    cfg.GENERAL_CONFIG.commission_rate)
        mdiff      == margin_diff(required, cur)
        ids        == assign_trade_id(cur, next_trade_id)
        opened_at  == assign_opened_at(cur, timestamp)
    IN  IF insufficient_funds(required, available)
        THEN [ Rejected("insufficient_funds", "none", priced, rm) EXCEPT
                 !.execution_price = E, !.margin_per_lot = per_lot,
                 !.required_margin = required ]
        ELSE [ outcome |-> "update", reason |-> "none",
               data |-> [ priced EXCEPT
                   !.balance = balance - (mdiff + commission),
                   !.used_margin = used_margin + mdiff,
                   !.total_commission = total_commission + commission,
                   !.next_trade_id = ids.next_trade_id,
                   !.positions = DictSet(positions, ticker,
                       [ lots |-> target_lots, avg_price |-> E, stop_loss |-> stop_loss,
                         take_profit |-> take_profit, margin |-> required,
                         trade_id |-> Some(ids.trade_id), opened_at |-> Some(opened_at),
                         accumulated_commission |-> cur.accumulated_commission + commission ]),
                   !.history = append_record(history,
                       update_record(ticker, ids.trade_id, target_lots, current_price, E,
                                     stop_loss, take_profit, required, commission, timestamp)) ],
               risk_manager |-> rm, saved |-> TRUE, execution_price |-> E,
               margin_per_lot |-> per_lot, required_margin |-> required ]

\* update_position from its first check on: cur is the ticker's position, hist the
\* ATR history after line 256, risk the answer of can_open_position
update_position_checked(ticker, target_lots, current_price, stop_loss, take_profit, margin_per_lot, atr, random_factor, cur, hist, risk) ==
    IF diff_lots(target_lots, cur) = 0
    THEN Rejected("noop", "none", Data, risk_manager)
    ELSE IF ~can_trade(now)
    THEN Rejected("market_closed", "none", Data, risk_manager)
    ELSE IF ~validate_position_size(target_lots)
    THEN Rejected("invalid_size", "none", Data, risk_manager)
    ELSE IF ~risk.ok
    THEN Rejected("risk_veto", risk.reason, [Data EXCEPT !.atr_history = hist], risk.rm)
    ELSE IF target_lots = 0
    THEN close_position(ticker, cur, current_price, hist,
             _calculate_execution_price(cfg, hist, ticker, current_price, cur.lots,
                                        close_direction(cur), atr, random_factor))
    ELSE open_position(ticker, cur, target_lots, current_price, stop_loss, take_profit,
                       margin_per_lot, hist, risk.rm,
             _calculate_execution_price(cfg, hist, ticker, current_price, target_lots,
                                        open_direction(target_lots), atr, random_factor))

\* the bug of consulting the RiskManager for a close as well
update_position_result_always_governed(ticker, target_lots, current_price, stop_loss, take_profit, margin_per_lot, atr, random_factor) ==
    update_position_checked(ticker, target_lots, current_price, stop_loss, take_profit,
        margin_per_lot, atr, random_factor,
        current_pos(ticker),
        IF Truthy(atr)
        THEN _update_atr_history(atr_history, ticker, atr[1], ATR_MAX_HISTORY)
        ELSE atr_history,
        IF cfg.RISK_CONFIG.enabled
        THEN can_open_position(risk_manager, balance, Cardinality(DOMAIN positions),
                               Abs(current_price * Abs(target_lots)), today)
        ELSE [rm |-> risk_manager, ok |-> TRUE, reason |-> "none"])

\* the bug of counting the positions of the other tickers only
update_position_result_others_counted(ticker, target_lots, current_price, stop_loss, take_profit, margin_per_lot, atr, random_factor) ==
    update_position_checked(ticker, target_lots, current_price, stop_loss, take_profit,
        margin_per_lot, atr, random_factor,
        current_pos(ticker),
        IF Truthy(atr)
        THEN _update_atr_history(atr_history, ticker, atr[1], ATR_MAX_HISTORY)
        ELSE atr_history,
        IF target_lots /= 0 /\ cfg.RISK_CONFIG.enabled
        THEN can_open_position(risk_manager, balance, Cardinality(DOMAIN positions \ {ticker}),
                               Abs(current_price * Abs(target_lots)), today)
        ELSE [rm |-> risk_manager, ok |-> TRUE, reason |-> "none"])

\* what update_position returns and leaves behind:
\* [outcome, reason, data, risk_manager, saved, execution_price, margin_per_lot,
\*  required_margin]
update_position_result(ticker, target_lots, current_price, stop_loss, take_profit, margin_per_lot, atr, random_factor) ==
    update_position_checked(ticker, target_lots, current_price, stop_loss, take_profit,
        margin_per_lot, atr, random_factor,
        current_pos(ticker),
        IF Truthy(atr)
        THEN _update_atr_history(atr_history, ticker, atr[1], ATR_MAX_HISTORY)
        ELSE atr_history,
        IF target_lots /= 0 /\ cfg.RISK_CONFIG.enabled
        THEN can_open_position(risk_manager, balance, Cardinality(DOMAIN positions),
                               Abs(current_price * Abs(target_lots)), today)
        ELSE [rm |-> risk_manager, ok |-> TRUE, reason |-> "none"])

NoCall ==
    [ op |-> "none", ticker |-> "", target_lots |-> 0, outcome |-> "none",
      reason |-> "none", execution_price |-> 0, margin_per_lot |-> 0,
      required_margin |-> 0 ]

update_position(ticker, target_lots, current_price, stop_loss, take_profit, margin_per_lot, atr, random_factor) ==
    /\ ncalls < MaxCalls
    /\ \E r \in {update_position_result(ticker, target_lots, current_price, stop_loss,
                                        take_profit, margin_per_lot, atr, random_factor)} :
        /\ ncalls' = ncalls + 1
        /\ balance' = r.data.balance
        /\ used_margin' = r.data.used_margin
        /\ positions' = r.data.positions
        /\ history' = r.data.history
        /\ balance_history' = r.data.balance_history
        /\ next_trade_id' = r.data.next_trade_id
        /\ total_commission' = r.data.total_commission
        /\ total_slippage_cost' = r.data.total_slippage_cost
        /\ total_spread_cost' = r.data.total_spread_cost
        /\ atr_history' = r.data.atr_history
        /\ initial_balance' = r.data.initial_balance
        /\ risk_manager' = r.risk_manager
        /\ snapshot' = IF r.saved THEN _save(r.data) ELSE snapshot
        /\ last' = [ op |-> "update_position", ticker |-> ticker,
                     target_lots |-> target_lots, outcome |-> r.outcome,
                     reason |-> r.reason, execution_price |-> r.execution_price,
                     margin_per_lot |-> r.margin_per_lot,
                     required_margin |-> r.required_margin ]
        /\ UNCHANGED <<cfg, clock, orders, in_flight>>

\* get_portfolio_summary: the ledger is read; the RiskManager's watermark moves
get_portfolio_summary ==
    /\ cfg.RISK_CONFIG.enabled
    /\ risk_manager' = update_peak_balance(risk_manager, balance)
    /\ UNCHANGED <<cfg, clock, ledger, initial_balance, snapshot, last, ncalls, orders, in_flight>>

\* get_performance_metrics: the ledger is read; get_risk_status moves the watermark
\* and the daily baseline
get_performance_metrics ==
    /\ cfg.RISK_CONFIG.enabled
    /\ risk_manager' = get_risk_status(risk_manager, balance, today)
    /\ UNCHANGED <<cfg, clock, ledger, initial_balance, snapshot, last, ncalls, orders, in_flight>>

\* what check_stop_loss_take_profit returns: "stop_loss", "take_profit" or "none"
check_stop_loss_take_profit(ticker, current_price) ==
    IF ticker \notin DOMAIN positions THEN "none"
    ELSE IF positions[ticker].lots < 0
    THEN IF Truthy(positions[ticker].stop_loss) /\ current_price <= positions[ticker].stop_loss[1]
         THEN "stop_loss"
         ELSE IF Truthy(positions[ticker].take_profit)
                    /\ current_price >= positions[ticker].take_profit[1]
         THEN "take_profit"
         ELSE "none"
    ELSE IF positions[ticker].lots > 0
    THEN IF Truthy(positions[ticker].stop_loss) /\ current_price >= positions[ticker].stop_loss[1]
         THEN "stop_loss"
         ELSE IF Truthy(positions[ticker].take_profit)
                    /\ current_price <= positions[ticker].take_profit[1]
         THEN "take_profit"
         ELSE "none"
    ELSE "none"

\* check_stop_loss_take_profit: the position is read; last holds what it returned
vp_check_stop_loss_take_profit(ticker, current_price) ==
    /\ last' = [NoCall EXCEPT !.op = "check_stop_loss_take_profit", !.ticker = ticker,
                              !.outcome = check_stop_loss_take_profit(ticker, current_price)]
    /\ UNCHANGED <<cfg, clock, ledger, initial_balance, risk_manager, snapshot, ncalls, orders, in_flight>>

\* time passes
Tick ==
    /\ clock < Len(Timeline)
    /\ clock' = clock + 1
    /\ UNCHANGED <<cfg, ledger, initial_balance, risk_manager, snapshot, last, ncalls, orders, in_flight>>

(***************************************************************************)
(* The inputs of the calls.                                                *)
(***************************************************************************)
Tickers == {"SiH6", "BRJ6"}

TargetLots == {-1, 0, 1, 2}

\* the market feed: each ticker's last price at each instant of Timeline
\* (5 000 and 30 000 roubles)
Feed ==
    [ SiH6 |-> <<500000, 500000, 3000000>>,
      BRJ6 |-> <<3000000, 3000000, 500000>> ]

last_price(ticker) == Feed[ticker][clock]

\* what the caller passes for each ticker: SiH6 is traded on signals (ATR and
\* levels, margin left to the default of 10% of the fill price), BRJ6 by hand
\* (no ATR, no levels, margin of 95 000 roubles per lot)
Caller ==
    [ SiH6 |-> [margin_per_lot |-> None, atr |-> Some(2)],
      BRJ6 |-> [margin_per_lot |-> Some(9500000), atr |-> None] ]

\* values of random.uniform(0.8, 1.2)
RandomFactors == {Rat(4, 5), Rat(6, 5)}

\* stop-loss and take-profit of the signal engine: 2 and 3 ATR from the price
Levels(target_lots, current_price, atr) ==
    IF atr = None \/ target_lots = 0
    THEN [stop_loss |-> None, take_profit |-> None]
    ELSE IF target_lots < 0
    THEN [stop_loss |-> Some(current_price - 2 * atr[1] * 100),
          take_profit |-> Some(current_price + 3 * atr[1] * 100)]
    ELSE [stop_loss |-> Some(current_price + 2 * atr[1] * 100),
          take_profit |-> Some(current_price - 3 * atr[1] * 100)]

(***************************************************************************)
(* The ledger: construction, then any sequence of calls.                   *)
(***************************************************************************)
\* the ledger of configuration c whose ATR history is hist and which has
\* written nothing since it was constructed
InitLedger(c, hist) ==
    /\ cfg = c
    /\ clock = 1
    /\ balance = c.GENERAL_CONFIG.initial_balance
    /\ initial_balance = c.GENERAL_CONFIG.initial_balance
    /\ positions = << >>
    /\ history = << >>
    /\ used_margin = 0
    /\ total_commission = 0
    /\ total_slippage_cost = 0
    /\ total_spread_cost = 0
    /\ next_trade_id = 1
    /\ balance_history = << >>
    /\ atr_history = hist
    /\ risk_manager = RiskManager(c.RISK_CONFIG)
    /\ snapshot = _save([ balance |-> c.GENERAL_CONFIG.initial_balance,
                          initial_balance |-> c.GENERAL_CONFIG.initial_balance,
                          positions |-> << >>, history |-> << >>, used_margin |-> 0,
                          total_commission |-> 0, total_slippage_cost |-> 0,
                          total_spread_cost |-> 0, next_trade_id |-> 1,
                          balance_history |-> << >>, atr_history |-> << >> ])
    /\ last = NoCall
    /\ ncalls = 0
    /\ pending_orders = << >>
    /\ order_counter = 0
    /\ wall = 0
    /\ in_flight = << >>

InitWith(c) == InitLedger(c, << >>)

Init == \E c \in {RealisticConfig, TestingConfig} : InitWith(c)

Call ==
    \E ticker \in Tickers, target_lots \in TargetLots, random_factor \in RandomFactors :
        update_position(ticker, target_lots, last_price(ticker),
                        Levels(target_lots, last_price(ticker), Caller[ticker].atr).stop_loss,
                        Levels(target_lots, last_price(ticker), Caller[ticker].atr).take_profit,
                        Caller[ticker].margin_per_lot, Caller[ticker].atr, random_factor)

Next ==
    \/ Call
    \/ get_portfolio_summary
    \/ get_performance_metrics
    \/ Tick

Spec == Init /\ [][Next]_vars

(***************************************************************************)
(* Properties of the ledger.                                               *)
(***************************************************************************)
\* the step is a call of update_position that ended in one of these outcomes
CallEnded(outcomes) == ncalls' = ncalls + 1 /\ last'.outcome \in outcomes

PolicyRejections == {"market_closed", "invalid_size", "risk_veto", "insufficient_funds"}

AcceptedMutations == {"close", "update"}

\* the sum of the margin of the entries of pos under the tickers of S
RECURSIVE SumOfMargins(_, _)
SumOfMargins(pos, S) ==
    IF S = {} THEN 0
    ELSE pos[CHOOSE t \in S : TRUE].margin
            + SumOfMargins(pos, S \ {CHOOSE t \in S : TRUE})

\* C1: after any sequence of update_position calls on a fresh ledger, used_margin
\* equals the sum of the margin of the currently open positions
C1_UsedMarginIsSumOfMargins == used_margin = SumOfMargins(positions, DOMAIN positions)

\* two positions with different margins are open, one of them after a resize
C1_Witness ==
    /\ DOMAIN positions = Tickers
    /\ Len(history) = 3
    /\ positions["SiH6"].lots = 2
    /\ positions["SiH6"].margin /= positions["BRJ6"].margin
    /\ used_margin = positions["SiH6"].margin + positions["BRJ6"].margin

\* C2: a call rejected for a policy reason (market closed, invalid size, risk veto,
\* insufficient funds) leaves every ledger field unchanged
C2_RejectionLeavesLedgerUnchanged ==
    [][CallEnded(PolicyRejections) => UNCHANGED ledger]_vars

\* a call for SiH6 was rejected for insufficient funds and its ATR is in the history
\* of ATRs, although SiH6 was never traded
C2_Witness ==
    /\ last.outcome = "insufficient_funds"
    /\ last.ticker = "SiH6"
    /\ "SiH6" \in DOMAIN atr_history
    /\ \A i \in 1..Len(history) : history[i].ticker /= "SiH6"

\* the last record of the history after the step
NewRecord == history'[Len(history')]

\* the margin per lot of the call of the step: the caller's, or 10% of the fill price
CallMarginPerLot ==
    IF Caller[last'.ticker].margin_per_lot = None
    THEN ExactDiv(last'.execution_price, 10)
    ELSE Caller[last'.ticker].margin_per_lot[1]

\* amount x commission rate
Commission(amount) ==
    ExactDiv(amount * cfg.GENERAL_CONFIG.commission_rate.n,
             cfg.GENERAL_CONFIG.commission_rate.d)

\* C4: a ticker has an entry in positions iff its lots are non-zero: no entry has
\* lots = 0, an accepted call with target_lots = 0 removes exactly that ticker's
\* entry, and no other call removes an entry
C4_EntryIffLotsNonZero ==
    /\ [](\A t \in DOMAIN positions : positions[t].lots /= 0)
    /\ [][IF CallEnded({"close"})
          THEN /\ last'.target_lots = 0
               /\ last'.ticker \in DOMAIN positions
               /\ DOMAIN positions' = DOMAIN positions \ {last'.ticker}
               /\ \A t \in DOMAIN positions' : positions'[t] = positions[t]
          ELSE DOMAIN positions \subseteq DOMAIN positions']_vars

\* a close has removed the entry of its ticker and left the other one
C4_Witness ==
    /\ last.outcome = "close"
    /\ last.ticker \notin DOMAIN positions
    /\ DOMAIN positions = Tickers \ {last.ticker}

\* C5: an accepted close of a position (lots L, avg_price A, margin M) at execution
\* price E records profit = (E - A) x L, commission = |E x L| x rate and
\* net_profit = profit - commission, adds M + net_profit to balance and takes M
\* from used_margin
C5_CloseAccounting ==
    [][CallEnded({"close"}) =>
        /\ NewRecord.profit =
              str((last'.execution_price - current_pos(last'.ticker).avg_price)
                    * current_pos(last'.ticker).lots)
        /\ NewRecord.commission =
              str(Commission(Abs(last'.execution_price * current_pos(last'.ticker).lots)))
        /\ NewRecord.net_profit =
              str(NewRecord.profit.decimal - NewRecord.commission.decimal)
        /\ balance' = balance + current_pos(last'.ticker).margin
                              + NewRecord.net_profit.decimal
        /\ used_margin' = used_margin - current_pos(last'.ticker).margin]_vars

\* a position of negative lots has been closed with a negative profit
C5_Witness ==
    /\ last.outcome = "close"
    /\ history[Len(history)].lots < 0
    /\ history[Len(history)].profit.decimal < 0
    /\ history[Len(history)].commission.decimal > 0

C7_MarginCheck ==
    [][CallEnded({"update", "insufficient_funds"}) =>
        (last'.outcome = "update"
            <=> CallMarginPerLot * Abs(last'.target_lots) <= balance - used_margin)]_vars

\* a resize was rejected that the margin the position already holds would have paid
C7_Witness ==
    /\ last.outcome = "insufficient_funds"
    /\ last.ticker \in DOMAIN positions
    /\ last.required_margin > balance - used_margin
    /\ last.required_margin - positions[last.ticker].margin <= balance - used_margin

\* C8: a position keeps its trade_id and opened_at through every resize, sign flips
\* included, until it is closed; a new trade_id is taken from next_trade_id, which
\* then grows by exactly 1, only when a ticker opens from flat; the close record
\* carries the position's trade_id and opened_at
C8_TradeIdentity ==
    [][/\ CallEnded({"update"}) =>
            IF last'.ticker \in DOMAIN positions
            THEN /\ positions'[last'.ticker].trade_id = positions[last'.ticker].trade_id
                 /\ positions'[last'.ticker].opened_at = positions[last'.ticker].opened_at
                 /\ NewRecord.trade_id = positions[last'.ticker].trade_id
                 /\ next_trade_id' = next_trade_id
            ELSE /\ positions'[last'.ticker].trade_id = Some(next_trade_id)
                 /\ positions'[last'.ticker].opened_at = Some(timestamp)
                 /\ NewRecord.trade_id = Some(next_trade_id)
                 /\ next_trade_id' = next_trade_id + 1
       /\ CallEnded({"close"}) =>
            /\ NewRecord.trade_id = positions[last'.ticker].trade_id
            /\ NewRecord.opened_at = positions[last'.ticker].opened_at
       /\ ~CallEnded({"update"}) => next_trade_id' = next_trade_id
       /\ \A t \in DOMAIN positions \cap DOMAIN positions' :
            /\ positions'[t].trade_id = positions[t].trade_id
            /\ positions'[t].opened_at = positions[t].opened_at]_vars

\* a trade opened on Friday and turned over on Monday has been closed: the close
\* record carries its id and the time it was opened
C8_Witness ==
    /\ last.outcome = "close"
    /\ Len(history) >= 3
    /\ history[Len(history)].trade_id = Some(1)
    /\ history[Len(history)].opened_at = Some(1)
    /\ history[Len(history)].timestamp = 3
    /\ history[Len(history) - 1].trade_id = Some(1)
    /\ history[Len(history) - 1].action = "update"
    /\ history[Len(history) - 1].timestamp = 3
    /\ history[Len(history) - 2].trade_id = Some(1)
    /\ history[Len(history) - 2].timestamp = 1
    /\ history[Len(history) - 2].lots * history[Len(history) - 1].lots < 0
    /\ next_trade_id = 2

\* C9: balance_history grows by exactly one entry, the balance after the close, on
\* every accepted full close and is unchanged by every other call; its entries are
\* never removed, reordered or modified
C9_BalanceHistory ==
    [][IF CallEnded({"close"})
       THEN balance_history' = Append(balance_history, float(balance'))
       ELSE balance_history' = balance_history]_vars

\* a close has been recorded, and the open after it moved the balance and left the
\* entry as it was
C9_Witness ==
    /\ Len(balance_history) = 1
    /\ Len(history) = 3
    /\ history[2].action = "close"
    /\ last.outcome = "update"
    /\ balance_history[1] /= float(balance)

\* C10: the trade history only grows: every accepted mutation appends exactly one
\* record ('update' when target_lots /= 0, 'close' when target_lots = 0), rejected
\* and no-op calls append none, and no record is ever modified or removed
C10_HistoryAppendOnly ==
    [][IF CallEnded(AcceptedMutations)
       THEN /\ Len(history') = Len(history) + 1
            /\ SubSeq(history', 1, Len(history)) = history
            /\ NewRecord.ticker = last'.ticker
            /\ NewRecord.action = (IF last'.target_lots = 0 THEN "close" ELSE "update")
            /\ last'.outcome = NewRecord.action
       ELSE history' = history]_vars

\* an open, its close, and an open again are on record, in that order
C10_Witness ==
    /\ Len(history) = 3
    /\ history[1].action = "update"
    /\ history[2].action = "close"
    /\ history[3].action = "update"
    /\ history[3].trade_id = Some(2)

\* C11: update_position with target_lots equal to the ticker's current lots (0 for a
\* ticker with no position) is a no-op whatever the calendar, the size rule and the
\* risk governor would say: no ledger field, atr_history entry, risk-governor field
\* or persisted snapshot changes
C11_NoOpHasNoSideEffects ==
    [][(/\ ncalls' = ncalls + 1
        /\ last'.target_lots = current_pos(last'.ticker).lots) =>
            /\ last'.outcome = "noop"
            /\ UNCHANGED <<ledger, initial_balance, risk_manager, snapshot>>]_vars

\* the second call asked for the lots SiH6 already had: its ATR was not recorded
\* again and the risk governor, consulted by the first call, was left as it was
C11_Witness ==
    /\ last.outcome = "noop"
    /\ last.ticker = "SiH6"
    /\ last.target_lots /= 0
    /\ ncalls = 2
    /\ "SiH6" \in DOMAIN positions
    /\ positions["SiH6"].lots = last.target_lots
    /\ Len(atr_history["SiH6"]) = 1
    /\ cfg.RISK_CONFIG.enabled
    /\ risk_manager.daily_start_balance = initial_balance

(***************************************************************************)
(* The risk governor on its own: a RiskManager of the realistic            *)
(* configuration, called with any balances.  ncalls counts the calls of    *)
(* can_open_position; last is the last call and what it returned.          *)
(***************************************************************************)
\* 100 000, 160 000 and 200 000 roubles
Balances == {10000000, 16000000, 20000000}

PositionCounts == {0, 2}

\* 10 000 and 60 000 roubles
PositionValues == {1000000, 6000000}

rm_can_open_position(current_balance, current_positions, position_value) ==
    /\ ncalls < MaxCalls
    /\ \E r \in {can_open_position(risk_manager, current_balance, current_positions,
                                   position_value, today)} :
        /\ ncalls' = ncalls + 1
        /\ risk_manager' = r.rm
        /\ last' = [ op |-> "can_open_position", current_balance |-> current_balance,
                     current_positions |-> current_positions,
                     position_value |-> position_value, ok |-> r.ok, reason |-> r.reason ]
    /\ UNCHANGED <<cfg, clock, ledger, initial_balance, snapshot, orders, in_flight>>

rm_update_peak_balance(current_balance) ==
    /\ risk_manager' = update_peak_balance(risk_manager, current_balance)
    /\ last' = [op |-> "update_peak_balance", current_balance |-> current_balance]
    /\ UNCHANGED <<cfg, clock, ledger, initial_balance, snapshot, ncalls, orders, in_flight>>

rm_get_risk_status(current_balance) ==
    /\ risk_manager' = get_risk_status(risk_manager, current_balance, today)
    /\ last' = [op |-> "get_risk_status", current_balance |-> current_balance]
    /\ UNCHANGED <<cfg, clock, ledger, initial_balance, snapshot, ncalls, orders, in_flight>>

rm_resume_trading ==
    /\ risk_manager' = resume_trading(risk_manager)
    /\ last' = [op |-> "resume_trading"]
    /\ UNCHANGED <<cfg, clock, ledger, initial_balance, snapshot, ncalls, orders, in_flight>>

InitRisk == InitWith(RealisticConfig)

NextRisk ==
    \/ \E current_balance \in Balances, current_positions \in PositionCounts,
          position_value \in PositionValues :
            rm_can_open_position(current_balance, current_positions, position_value)
    \/ \E current_balance \in Balances : rm_update_peak_balance(current_balance)
    \/ \E current_balance \in Balances : rm_get_risk_status(current_balance)
    \/ rm_resume_trading
    \/ Tick

SpecRisk == InitRisk /\ [][NextRisk]_vars

\* C3: once can_open_position has returned False for reaching the drawdown limit,
\* every later call returns False until resume_trading() is called, even when the
\* balance passed to it has recovered
C3_DrawdownRefusalIsSticky ==
    [][(/\ risk_manager.trading_paused
        /\ risk_manager.pause_reason = Some("max_drawdown")
        /\ ncalls' = ncalls + 1) => ~last'.ok]_vars

\* a call is allowed although the last refusal for drawdown was never resumed
C3_Witness ==
    /\ last.op = "can_open_position"
    /\ last.ok
    /\ risk_manager.trading_paused
    /\ risk_manager.pause_reason = Some("max_drawdown")

\* the daily baseline the call compares the balance with: the balance itself when
\* the stored reset date is not today, the stored baseline otherwise
DailyBaseline(current_balance) ==
    IF risk_manager.daily_reset_date /= Some(today)
    THEN current_balance
    ELSE risk_manager.daily_start_balance

\* the first of the four checks that the call of the step fails, "none" if it passes
\* them all
FirstFailure(current_balance, current_positions, position_value) ==
    IF /\ risk_manager.peak_balance /= 0
       /\ (risk_manager.peak_balance - current_balance) * 100
              >= risk_manager.max_drawdown * risk_manager.peak_balance
    THEN "max_drawdown"
    ELSE IF /\ DailyBaseline(current_balance) /= 0
            /\ (current_balance - DailyBaseline(current_balance)) * 100
                   <= -risk_manager.daily_loss_limit * DailyBaseline(current_balance)
    THEN "daily_loss"
    ELSE IF current_positions >= risk_manager.max_positions
    THEN "position_count"
    ELSE IF position_value * 100 > current_balance * risk_manager.max_position_size
    THEN "position_size"
    ELSE "none"

\* C12: can_open_position evaluates drawdown, daily loss, position count and position
\* size in that order and stops at the first failing check: the reason returned is
\* that of the first failure, a drawdown or daily-loss failure sets trading_paused
\* with that reason, and a position-count or position-size failure never changes
\* trading_paused or pause_reason
C12_ChecksInOrder ==
    [][ncalls' = ncalls + 1 =>
        /\ last'.reason = FirstFailure(last'.current_balance, last'.current_positions,
                                       last'.position_value)
        /\ last'.ok = (last'.reason = "none")
        /\ IF last'.reason \in {"max_drawdown", "daily_loss"}
           THEN /\ risk_manager'.trading_paused
                /\ risk_manager'.pause_reason = Some(last'.reason)
           ELSE /\ risk_manager'.trading_paused = risk_manager.trading_paused
                /\ risk_manager'.pause_reason = risk_manager.pause_reason]_vars

\* a call that fails both the position count and the position size was refused for
\* the count, and left in place the pause of an earlier daily-loss refusal
C12_Witness ==
    /\ last.op = "can_open_position"
    /\ last.reason = "position_count"
    /\ last.current_positions >= risk_manager.max_positions
    /\ last.position_value * 100 > last.current_balance * risk_manager.max_position_size
    /\ risk_manager.trading_paused
    /\ risk_manager.pause_reason = Some("daily_loss")

\* C13: every can_open_position evaluation raises the peak-balance watermark to the
\* balance passed in (if higher) before the drawdown check, so after any evaluation
\* peak_balance >= that balance, and peak_balance never decreases
C13_EvaluationRaisesWatermark ==
    [][/\ ncalls' = ncalls + 1 =>
            risk_manager'.peak_balance >= last'.current_balance
       /\ risk_manager'.peak_balance >= risk_manager.peak_balance]_vars

\* a call was allowed at half the balance an earlier call was evaluated with, on a
\* later day, and the watermark is still where the constructor left it
C13_Witness ==
    /\ last.op = "can_open_position"
    /\ last.ok
    /\ ncalls >= 2
    /\ risk_manager.daily_reset_date = Some(today)
    /\ risk_manager.daily_start_balance = 10000000
    /\ last.current_balance = 10000000
    /\ risk_manager.trading_paused
    /\ risk_manager.pause_reason = Some("daily_loss")
    /\ risk_manager.peak_balance = 0

\* the daily baseline is reset to current_balance if the stored reset date is not
\* today, and is left as it is otherwise
BaselineFollowsDate(current_balance) ==
    IF risk_manager.daily_reset_date /= Some(today)
    THEN /\ risk_manager'.daily_start_balance = current_balance
         /\ risk_manager'.daily_reset_date = Some(today)
    ELSE /\ risk_manager'.daily_start_balance = risk_manager.daily_start_balance
         /\ risk_manager'.daily_reset_date = risk_manager.daily_reset_date

\* the step is a call of get_risk_status
RiskStatusQueried == last'.op = "get_risk_status" /\ clock' = clock

\* C14: the daily baseline is reset to the balance passed in exactly when a
\* daily-loss evaluation (or a risk-status query) runs on a calendar date different
\* from the stored reset date, and is left unchanged by every evaluation on the same
\* date and by everything else; can_open_position rejects, and sets trading_paused,
\* whenever (balance - daily_start) / daily_start <= -daily_loss_limit
C14_DailyBaseline ==
    [][/\ ncalls' = ncalls + 1 =>
            /\ IF FirstFailure(last'.current_balance, 0, 0) = "max_drawdown"
               THEN /\ risk_manager'.daily_start_balance = risk_manager.daily_start_balance
                    /\ risk_manager'.daily_reset_date = risk_manager.daily_reset_date
               ELSE BaselineFollowsDate(last'.current_balance)
            /\ (/\ risk_manager'.daily_start_balance /= 0
                /\ (last'.current_balance - risk_manager'.daily_start_balance) * 100
                      <= -risk_manager.daily_loss_limit * risk_manager'.daily_start_balance)
                  => (~last'.ok /\ risk_manager'.trading_paused)
       /\ RiskStatusQueried => BaselineFollowsDate(last'.current_balance)
       /\ ~(ncalls' = ncalls + 1 \/ RiskStatusQueried) =>
            /\ risk_manager'.daily_start_balance = risk_manager.daily_start_balance
            /\ risk_manager'.daily_reset_date = risk_manager.daily_reset_date]_vars

\* on Monday a call was refused for the loss against the baseline an earlier
\* evaluation took that day: the refused evaluation left the baseline as it was
C14_Witness ==
    /\ last.op = "can_open_position"
    /\ last.reason = "daily_loss"
    /\ clock = 3
    /\ risk_manager.daily_reset_date = Some(today)
    /\ risk_manager.daily_start_balance = 20000000
    /\ last.current_balance = 16000000
    /\ risk_manager.peak_balance = 0
    /\ risk_manager.trading_paused

(***************************************************************************)
(* Persistence of the ledger (src/storage/virtual_portfolio.py): the file  *)
(* at storage_path is the variable snapshot.  Here the write of _save can  *)
(* fail, the file can be damaged between two runs, and the ledger can be   *)
(* constructed again on the file the last run left.                        *)
(***************************************************************************)
\* self.data as __init__ builds it, before _load
DefaultData(c) ==
    [ balance |-> c.GENERAL_CONFIG.initial_balance,
      initial_balance |-> c.GENERAL_CONFIG.initial_balance,
      positions |-> << >>, history |-> << >>, used_margin |-> 0,
      total_commission |-> 0, total_slippage_cost |-> 0, total_spread_cost |-> 0,
      next_trade_id |-> 1, balance_history |-> << >>, atr_history |-> << >> ]

\* a file json.load cannot parse
Unparsable == [unparsable |-> TRUE]

\* a string Decimal() cannot convert
BadString == [text |-> "abc"]

\* json.load(f) returns
Parsable(raw) == "unparsable" \notin DOMAIN raw

\* Decimal(s) returns
Convertible(s) == "decimal" \in DOMAIN s

\* Decimal(s) of the string of a Decimal
Decimal(s) == s.decimal

\* Decimal(str(v.get(key))) if v.get(key) else None
DecimalIfTruthy(o) == IF o = None THEN None ELSE Some(Decimal(o[1]))

\* the dictionary comprehension of _load over raw_data["positions"] can be built
PositionsConvertible(raw) ==
    \A k \in DOMAIN raw.positions :
        /\ Convertible(raw.positions[k].avg_price)
        /\ raw.positions[k].stop_loss /= None => Convertible(raw.positions[k].stop_loss[1])
        /\ raw.positions[k].take_profit /= None => Convertible(raw.positions[k].take_profit[1])
        /\ Convertible(raw.positions[k].margin)
        /\ Convertible(raw.positions[k].accumulated_commission)

LoadedPositions(raw) ==
    [k \in DOMAIN raw.positions |->
        [ lots |-> raw.positions[k].lots,
          avg_price |-> Decimal(raw.positions[k].avg_price),
          stop_loss |-> DecimalIfTruthy(raw.positions[k].stop_loss),
          take_profit |-> DecimalIfTruthy(raw.positions[k].take_profit),
          margin |-> Decimal(raw.positions[k].margin),
          trade_id |-> raw.positions[k].trade_id,
          opened_at |-> raw.positions[k].opened_at,
          accumulated_commission |-> Decimal(raw.positions[k].accumulated_commission) ]]

\* what the except branch of _load is entered with
LoadFailed(d) == [data |-> d, failed |-> TRUE]

\* _load from its last four assignments on
load_tail(d, raw) ==
    IF ~Convertible(raw.initial_balance)
    THEN LoadFailed([d EXCEPT !.next_trade_id = raw.next_trade_id])
    ELSE [ data |-> [d EXCEPT !.next_trade_id = raw.next_trade_id,
                              !.initial_balance = Decimal(raw.initial_balance),
                              !.balance_history = raw.balance_history,
                              !.atr_history = raw.atr_history],
           failed |-> FALSE ]

\* _load from the assignment of used_margin on
load_totals(d, raw) ==
    IF ~Convertible(raw.used_margin) THEN LoadFailed(d)
    ELSE IF ~Convertible(raw.total_commission)
    THEN LoadFailed([d EXCEPT !.used_margin = Decimal(raw.used_margin)])
    ELSE IF ~Convertible(raw.total_slippage_cost)
    THEN LoadFailed([d EXCEPT !.used_margin = Decimal(raw.used_margin),
                              !.total_commission = Decimal(raw.total_commission)])
    ELSE IF ~Convertible(raw.total_spread_cost)
    THEN LoadFailed([d EXCEPT !.used_margin = Decimal(raw.used_margin),
                              !.total_commission = Decimal(raw.total_commission),
                              !.total_slippage_cost = Decimal(raw.total_slippage_cost)])
    ELSE load_tail([d EXCEPT !.used_margin = Decimal(raw.used_margin),
                             !.total_commission = Decimal(raw.total_commission),
                             !.total_slippage_cost = Decimal(raw.total_slippage_cost),
                             !.total_spread_cost = Decimal(raw.total_spread_cost)], raw)

\* the try block of _load on an existing file: the assignments are made one after
\* the other, and the first that raises ends the block with the earlier ones made.
\* [data: self.data after the block, failed: whether it raised]
_load(d, raw) ==
    IF ~Parsable(raw) THEN LoadFailed(d)
    ELSE IF ~Convertible(raw.balance) THEN LoadFailed(d)
    ELSE IF ~PositionsConvertible(raw)
    THEN LoadFailed([d EXCEPT !.balance = Decimal(raw.balance)])
    ELSE load_totals([d EXCEPT !.balance = Decimal(raw.balance),
                               !.positions = LoadedPositions(raw),
                               !.history = raw.history], raw)

\* update_position when the write of _save raises: the updates of self.data are
\* made, the exception leaves the call, and the file is as it was (open failed) or
\* cut short (the write failed)
update_position_write_fails(ticker, target_lots, current_price, stop_loss, take_profit, margin_per_lot, atr, random_factor, file) ==
    /\ ncalls < MaxCalls
    /\ \E r \in {update_position_result(ticker, target_lots, current_price, stop_loss,
                                        take_profit, margin_per_lot, atr, random_factor)} :
        /\ r.saved
        /\ ncalls' = ncalls + 1
        /\ balance' = r.data.balance
        /\ used_margin' = r.data.used_margin
        /\ positions' = r.data.positions
        /\ history' = r.data.history
        /\ balance_history' = r.data.balance_history
        /\ next_trade_id' = r.data.next_trade_id
        /\ total_commission' = r.data.total_commission
        /\ total_slippage_cost' = r.data.total_slippage_cost
        /\ total_spread_cost' = r.data.total_spread_cost
        /\ atr_history' = r.data.atr_history
        /\ initial_balance' = r.data.initial_balance
        /\ risk_manager' = r.risk_manager
        /\ snapshot' = file
        /\ last' = [ op |-> "update_position", ticker |-> ticker,
                     target_lots |-> target_lots, outcome |-> "raised",
                     reason |-> "write_failed", execution_price |-> r.execution_price,
                     margin_per_lot |-> r.margin_per_lot,
                     required_margin |-> r.required_margin ]
        /\ UNCHANGED <<cfg, clock, orders, in_flight>>

\* the ways the file is damaged between two runs
Damages == {"unparsable", "balance", "positions", "used_margin", "initial_balance"}

Damaged(raw, damage) ==
    IF damage = "unparsable" THEN Unparsable
    ELSE IF damage = "balance" THEN [raw EXCEPT !.balance = BadString]
    ELSE IF damage = "positions"
    THEN [raw EXCEPT !.positions =
             [k \in DOMAIN raw.positions |-> [raw.positions[k] EXCEPT !.avg_price = BadString]]]
    ELSE IF damage = "used_margin" THEN [raw EXCEPT !.used_margin = BadString]
    ELSE [raw EXCEPT !.initial_balance = BadString]

\* the file is damaged while no ledger has it open
damage_file(damage) ==
    /\ ~_load(DefaultData(cfg), snapshot).failed
    /\ damage = "positions" => DOMAIN snapshot.positions /= {}
    /\ snapshot' = Damaged(snapshot, damage)
    /\ last' = [NoCall EXCEPT !.op = "damage_file", !.reason = damage]
    /\ UNCHANGED <<cfg, clock, ledger, initial_balance, risk_manager, ncalls, orders, in_flight>>

\* VirtualPortfolio(storage_path) on the file the last run left: __init__ and _load
restart ==
    \E r \in {_load(DefaultData(cfg), snapshot)} :
        /\ balance' = r.data.balance
        /\ used_margin' = r.data.used_margin
        /\ positions' = r.data.positions
        /\ history' = r.data.history
        /\ balance_history' = r.data.balance_history
        /\ next_trade_id' = r.data.next_trade_id
        /\ total_commission' = r.data.total_commission
        /\ total_slippage_cost' = r.data.total_slippage_cost
        /\ total_spread_cost' = r.data.total_spread_cost
        /\ atr_history' = r.data.atr_history
        /\ initial_balance' = r.data.initial_balance
        /\ risk_manager' = RiskManager(cfg.RISK_CONFIG)
        /\ snapshot' = IF r.failed THEN _save(r.data) ELSE snapshot
        /\ last' = [NoCall EXCEPT !.op = "__init__",
                                  !.outcome = IF r.failed THEN "load_failed" ELSE "loaded"]
        /\ UNCHANGED <<cfg, clock, ncalls, orders, in_flight>>

FailingCall ==
    \E ticker \in Tickers, target_lots \in TargetLots, random_factor \in RandomFactors,
       file \in {snapshot, Unparsable} :
        update_position_write_fails(ticker, target_lots, last_price(ticker),
                        Levels(target_lots, last_price(ticker), Caller[ticker].atr).stop_loss,
                        Levels(target_lots, last_price(ticker), Caller[ticker].atr).take_profit,
                        Caller[ticker].margin_per_lot, Caller[ticker].atr, random_factor, file)

\* one run after the other on the same file, within one trading session
InitStore == InitWith(RealisticConfig)

NextStore ==
    \/ ncalls < MaxStoreCalls /\ Call
    \/ ncalls < MaxStoreCalls /\ FailingCall
    \/ \E damage \in Damages : damage_file(damage)
    \/ restart

SpecStore == InitStore /\ [][NextStore]_vars

\* what _load reads back from the file after the step
Reloaded == _load(DefaultData(cfg), snapshot')

C16_FailedWriteIsContained ==
    [][(ncalls' = ncalls + 1 /\ last'.reason = "write_failed") =>
            /\ last'.outcome /= "raised"
            /\ UNCHANGED ledger]_vars

\* the write of an open failed: the exception left the call, the position is in
\* memory and the file, still readable, does not have it
C16_Witness ==
    /\ last.outcome = "raised"
    /\ last.ticker \in DOMAIN positions
    /\ Parsable(snapshot)
    /\ last.ticker \notin DOMAIN snapshot.positions
    /\ Len(snapshot.history) < Len(history)

\* the step is a construction of the ledger whose load of the file failed
LoadFailedNow ==
    /\ last.op /= "__init__"
    /\ last'.op = "__init__"
    /\ last'.outcome = "load_failed"

\* C17: when loading a persisted snapshot fails (unparsable file, or a field or
\* position entry that cannot be converted), the resulting ledger is exactly the
\* fresh default ledger, with no field taken from the bad snapshot, and that fresh
\* state is what gets persisted
C17_FailedLoadGivesFreshLedger ==
    [][LoadFailedNow =>
            /\ Data' = DefaultData(cfg)
            /\ snapshot' = _save(DefaultData(cfg))]_vars

\* the load failed on a position entry: the balance of the damaged file is in the
\* ledger and in the file written after the failure, next to the default of
\* everything else
C17_Witness ==
    /\ last.op = "__init__"
    /\ last.outcome = "load_failed"
    /\ balance /= DefaultData(cfg).balance
    /\ [Data EXCEPT !.balance = DefaultData(cfg).balance] = DefaultData(cfg)
    /\ snapshot = _save(Data)

(***************************************************************************)
(* Delayed execution of orders (src/utils/order_execution.py).  po is      *)
(* pending_orders, a dictionary from order ids to orders; t is what        *)
(* datetime.now() returns, in seconds.  The id "ORD_<counter>_<time>" is   *)
(* the pair of its two parts.                                              *)
(***************************************************************************)
\* OrderExecutionSimulator() with the defaults of __init__, which are the values of
\* ORDER_EXECUTION_CONFIG: delays in seconds, max_deviation = 1.0 / 100.0
OrderExecutionSimulator ==
    [min_delay |-> 1, max_delay |-> 3, max_deviation |-> Rat(1, 100)]

order_direction(target_lots) ==
    IF target_lots = 0 THEN "close"
    ELSE IF target_lots < 0 THEN "buy"
    ELSE "sell"

PendingOrder(order_id, ticker, target_lots, expected_price, stop_loss, take_profit, figi, created_at, execute_at, direction) ==
    [ order_id |-> order_id, ticker |-> ticker, target_lots |-> target_lots,
      expected_price |-> expected_price, stop_loss |-> stop_loss,
      take_profit |-> take_profit, figi |-> figi, created_at |-> created_at,
      execute_at |-> execute_at, direction |-> direction, status |-> "pending",
      actual_price |-> None, executed_at |-> None, cancellation_reason |-> None ]

\* [pending_orders, order_counter, order_id]: the simulator after the call and the
\* id it returns; delay is the value random.uniform(min_delay, max_delay) returned
create_order(po, counter, ticker, target_lots, expected_price, stop_loss, take_profit, figi, t, delay) ==
    [ pending_orders |-> DictSet(po, <<counter + 1, t>>,
          PendingOrder(<<counter + 1, t>>, ticker, target_lots, expected_price, stop_loss,
                       take_profit, figi, t, t + delay, order_direction(target_lots))),
      order_counter |-> counter + 1,
      order_id |-> <<counter + 1, t>> ]

\* the bug of cancelling at the threshold
deviation_exceeds_or_equal(current_price, expected_price, max_deviation) ==
    Abs(current_price - expected_price) * max_deviation.d >= max_deviation.n * expected_price

\* abs(current_price - expected_price) / expected_price > max_deviation, for a
\* positive expected price
deviation_exceeds(current_price, expected_price, max_deviation) ==
    Abs(current_price - expected_price) * max_deviation.d > max_deviation.n * expected_price

\* the cancellation reason of a deviation: it carries the deviation, which the source
\* prints in percent
price_deviation_reason(current_price, expected_price) ==
    [kind |-> "price_deviation", deviation |-> Rat(Abs(current_price - expected_price), expected_price)]

\* the bug of keeping an order that is due, but whose ticker has no price, pending
check_order_waits_for_price(order, current_prices, t, max_deviation) ==
    IF order.status /= "pending" THEN order
    ELSE IF ~(t >= order.execute_at) THEN order
    ELSE IF order.ticker \notin DOMAIN current_prices
    THEN order
    ELSE IF deviation_exceeds(current_prices[order.ticker], order.expected_price, max_deviation)
    THEN [order EXCEPT !.status = "cancelled",
                       !.cancellation_reason =
                           Some(price_deviation_reason(current_prices[order.ticker],
                                                       order.expected_price))]
    ELSE [order EXCEPT !.actual_price = Some(current_prices[order.ticker]),
                       !.status = "ready"]

\* the body of the loop of check_ready_orders for one order
check_order(order, current_prices, t, max_deviation) ==
    IF order.status /= "pending" THEN order
    ELSE IF ~(t >= order.execute_at) THEN order
    ELSE IF order.ticker \notin DOMAIN current_prices
    THEN [order EXCEPT !.status = "cancelled",
                       !.cancellation_reason = Some([kind |-> "no_current_price"])]
    ELSE IF deviation_exceeds(current_prices[order.ticker], order.expected_price, max_deviation)
    THEN [order EXCEPT !.status = "cancelled",
                       !.cancellation_reason =
                           Some(price_deviation_reason(current_prices[order.ticker],
                                                       order.expected_price))]
    ELSE [order EXCEPT !.actual_price = Some(current_prices[order.ticker]),
                       !.status = "ready"]

\* the bug of returning every order that is ready, whenever it became so
RECURSIVE ready_orders_again(_, _, _)
ready_orders_again(old, new, n) ==
    IF n = 0 THEN << >>
    ELSE IF \E id \in DOMAIN old : id[1] = n /\ new[id].status = "ready"
    THEN Append(ready_orders_again(old, new, n - 1), new[CHOOSE id \in DOMAIN old : id[1] = n])
    ELSE ready_orders_again(old, new, n - 1)

\* the list check_ready_orders returns: the orders that became ready, in the order
\* of the dictionary, which is that of the counter in their ids
RECURSIVE ready_orders(_, _, _)
ready_orders(old, new, n) ==
    IF n = 0 THEN << >>
    ELSE IF \E id \in DOMAIN old : id[1] = n /\ old[id].status = "pending" /\ new[id].status = "ready"
    THEN Append(ready_orders(old, new, n - 1), new[CHOOSE id \in DOMAIN old : id[1] = n])
    ELSE ready_orders(old, new, n - 1)

\* pending_orders after check_ready_orders
check_ready_orders(po, current_prices, t, max_deviation) ==
    [id \in DOMAIN po |-> check_order(po[id], current_prices, t, max_deviation)]

\* the bug of executing an order whatever its status
execute_order_any(po, order_id, t) ==
    IF order_id \in DOMAIN po
    THEN [ pending_orders |-> [po EXCEPT ![order_id].status = "executed",
                                         ![order_id].executed_at = Some(t)],
           result |-> Some(order_id) ]
    ELSE [pending_orders |-> po, result |-> None]

\* [pending_orders, result]: result is the id of the order returned, or None
execute_order(po, order_id, t) ==
    IF order_id \in DOMAIN po /\ po[order_id].status = "ready"
    THEN [ pending_orders |-> [po EXCEPT ![order_id].status = "executed",
                                         ![order_id].executed_at = Some(t)],
           result |-> Some(order_id) ]
    ELSE [pending_orders |-> po, result |-> None]

\* the bug of cancelling an order whatever its status
cancel_order_any(po, order_id, reason) ==
    IF order_id \in DOMAIN po
    THEN [ pending_orders |-> [po EXCEPT ![order_id].status = "cancelled",
                                         ![order_id].cancellation_reason = Some([kind |-> reason])],
           result |-> TRUE ]
    ELSE [pending_orders |-> po, result |-> FALSE]

\* [pending_orders, result]
cancel_order(po, order_id, reason) ==
    IF order_id \in DOMAIN po /\ po[order_id].status = "pending"
    THEN [ pending_orders |-> [po EXCEPT ![order_id].status = "cancelled",
                                         ![order_id].cancellation_reason = Some([kind |-> reason])],
           result |-> TRUE ]
    ELSE [pending_orders |-> po, result |-> FALSE]

\* timedelta(hours = max_age_hours), in seconds
hours(max_age_hours) == max_age_hours * 3600

\* the bug of removing every old order, whatever its status
cleanup_old_orders_by_age(po, max_age_hours, t) ==
    [id \in {i \in DOMAIN po : ~(po[i].created_at < t - hours(max_age_hours))} |-> po[id]]

\* pending_orders after cleanup_old_orders
cleanup_old_orders(po, max_age_hours, t) ==
    [id \in {i \in DOMAIN po : ~(/\ po[i].status \in {"executed", "cancelled"}
                                  /\ po[i].created_at < t - hours(max_age_hours))} |-> po[id]]

(***************************************************************************)
(* The order simulator on its own, called in any order.                    *)
(***************************************************************************)
\* what the caller asks for, and the value random.uniform(1.0, 3.0) returns for it,
\* in seconds: an entry into SiH6, delayed by the least, and the close of BRJ6,
\* delayed by the most
OrderRequests == { [ticker |-> "SiH6", target_lots |-> -1, delay |-> 1],
                   [ticker |-> "BRJ6", target_lots |-> 0, delay |-> 3] }

\* the prices the caller passes to check_ready_orders: the expected ones; SiH6 at
\* exactly 1% above and BRJ6 missing; SiH6 just over 1% above and BRJ6 at 1% below
PriceBoards ==
    { [SiH6 |-> 500000, BRJ6 |-> 3000000],
      [SiH6 |-> 505000],
      [SiH6 |-> 505001, BRJ6 |-> 2970000] }

\* the ids a caller may pass: those it was given, and one it was not
UnknownOrder == <<0, 0>>

\* the instants, after the start at 0, at which the simulator is called: after one
\* and three seconds, and after a day and a second
Instants == {1, 3, 86401}

\* the default of cleanup_old_orders
MaxAgeHours == 24

oes_create_order(ticker, target_lots, expected_price, delay) ==
    /\ order_counter < MaxOrders
    /\ \E r \in {create_order(pending_orders, order_counter, ticker, target_lots,
                               expected_price, None, None, None, wall, delay)} :
        /\ pending_orders' = r.pending_orders
        /\ order_counter' = r.order_counter
        /\ last' = [op |-> "create_order", order_id |-> r.order_id]
    /\ UNCHANGED <<cfg, clock, ledger, initial_balance, risk_manager, snapshot, ncalls, wall, in_flight>>

oes_check_ready_orders(current_prices) ==
    /\ \E po \in {check_ready_orders(pending_orders, current_prices, wall,
                                      OrderExecutionSimulator.max_deviation)} :
        /\ pending_orders' = po
        /\ last' = [ op |-> "check_ready_orders", current_prices |-> current_prices,
                     result |-> ready_orders(pending_orders, po, order_counter) ]
    /\ UNCHANGED <<cfg, clock, ledger, initial_balance, risk_manager, snapshot, ncalls,
                   order_counter, wall, in_flight>>

oes_execute_order(order_id) ==
    /\ \E r \in {execute_order(pending_orders, order_id, wall)} :
        /\ pending_orders' = r.pending_orders
        /\ last' = [op |-> "execute_order", order_id |-> order_id, result |-> r.result]
    /\ UNCHANGED <<cfg, clock, ledger, initial_balance, risk_manager, snapshot, ncalls,
                   order_counter, wall, in_flight>>

oes_cancel_order(order_id) ==
    /\ \E r \in {cancel_order(pending_orders, order_id, "manual")} :
        /\ pending_orders' = r.pending_orders
        /\ last' = [op |-> "cancel_order", order_id |-> order_id, result |-> r.result]
    /\ UNCHANGED <<cfg, clock, ledger, initial_balance, risk_manager, snapshot, ncalls,
                   order_counter, wall, in_flight>>

oes_cleanup_old_orders(max_age_hours) ==
    /\ pending_orders' = cleanup_old_orders(pending_orders, max_age_hours, wall)
    /\ last' = [op |-> "cleanup_old_orders"]
    /\ UNCHANGED <<cfg, clock, ledger, initial_balance, risk_manager, snapshot, ncalls,
                   order_counter, wall, in_flight>>

\* time passes between two calls, until the instant t
Sleep(t) ==
    /\ t > wall
    /\ wall' = t
    /\ last' = [op |-> "sleep"]
    /\ UNCHANGED <<cfg, clock, ledger, initial_balance, risk_manager, snapshot, ncalls,
                   pending_orders, order_counter, in_flight>>

InitOrders == InitWith(RealisticConfig)

NextOrders ==
    \/ \E request \in OrderRequests :
            oes_create_order(request.ticker, request.target_lots,
                             Feed[request.ticker][1], request.delay)
    \/ \E current_prices \in PriceBoards : oes_check_ready_orders(current_prices)
    \/ \E order_id \in DOMAIN pending_orders \cup {UnknownOrder} : oes_execute_order(order_id)
    \/ \E order_id \in DOMAIN pending_orders \cup {UnknownOrder} : oes_cancel_order(order_id)
    \/ oes_cleanup_old_orders(MaxAgeHours)
    \/ \E t \in Instants : Sleep(t)

SpecOrders == InitOrders /\ [][NextOrders]_vars

(***************************************************************************)
(* The order simulator while the clock advances and check_ready_orders is  *)
(* called again and again.                                                 *)
(***************************************************************************)
\* the last of the instants at which the simulator is called
LastInstant == CHOOSE t \in Instants : \A u \in Instants : u <= t

\* the orders created while the simulator is checked again and again
MaxLiveOrders == 1

\* create_order, called early enough for the order to fall due by the last instant
oes_create_order_in_time(ticker, target_lots, expected_price, delay) ==
    /\ order_counter < MaxLiveOrders
    /\ wall + delay <= LastInstant
    /\ oes_create_order(ticker, target_lots, expected_price, delay)

TimeAdvances == \E t \in Instants : Sleep(t)

CheckedRepeatedly == \E current_prices \in PriceBoards : oes_check_ready_orders(current_prices)

NextOrdersLive ==
    \/ \E request \in OrderRequests :
            oes_create_order_in_time(request.ticker, request.target_lots,
                                     Feed[request.ticker][1], request.delay)
    \/ CheckedRepeatedly
    \/ \E order_id \in DOMAIN pending_orders \cup {UnknownOrder} : oes_execute_order(order_id)
    \/ \E order_id \in DOMAIN pending_orders \cup {UnknownOrder} : oes_cancel_order(order_id)
    \/ oes_cleanup_old_orders(MaxAgeHours)
    \/ TimeAdvances

SpecOrdersLive ==
    /\ InitOrders
    /\ [][NextOrdersLive]_vars
    /\ WF_vars(TimeAdvances)
    /\ WF_vars(CheckedRepeatedly)

\* the changes of status the specification of the simulator allows
StatusChanges ==
    { <<"pending", "ready">>, <<"pending", "cancelled">>, <<"ready", "executed">> }

\* C18: under any interleaving of create_order, check_ready_orders, execute_order,
\* cancel_order and cleanup_old_orders, an order's status changes only along
\* pending -> ready, pending -> cancelled and ready -> executed; executed and
\* cancelled are absorbing; an order enters as pending under an id not used before
C18_StatusTransitions ==
    [][/\ \A id \in DOMAIN pending_orders \cap DOMAIN pending_orders' :
            \/ pending_orders'[id].status = pending_orders[id].status
            \/ <<pending_orders[id].status, pending_orders'[id].status>> \in StatusChanges
       /\ \A id \in DOMAIN pending_orders' \ DOMAIN pending_orders :
            /\ pending_orders'[id].status = "pending"
            /\ id[1] > order_counter]_vars

\* one order was executed and another cancelled for the move of the price, and a
\* later check of the ready orders has left both as they were
C18_Witness ==
    /\ last.op = "check_ready_orders"
    /\ last.result = << >>
    /\ \E a, b \in DOMAIN pending_orders :
        /\ pending_orders[a].status = "executed"
        /\ pending_orders[a].executed_at /= None
        /\ pending_orders[b].status = "cancelled"
        /\ pending_orders[b].cancellation_reason /= None
        /\ pending_orders[b].cancellation_reason[1].kind = "price_deviation"
        /\ pending_orders[b].ticker \in DOMAIN last.current_prices
        /\ pending_orders[b].expected_price = last.current_prices[pending_orders[b].ticker]

\* C19: check_ready_orders changes exactly the pending orders whose execute_at has
\* passed: such an order is cancelled when current_prices has no entry for its
\* ticker, cancelled when |current - expected| / expected is strictly greater than
\* the threshold of 1% (a deviation equal to the threshold is not cancelled), and
\* otherwise becomes ready with actual_price set to the observed price; pending
\* orders not yet due and orders in any other status are left unchanged
C19_CheckReadyOrders ==
    [][last'.op = "check_ready_orders" =>
        /\ DOMAIN pending_orders' = DOMAIN pending_orders
        /\ \A id \in DOMAIN pending_orders :
            IF pending_orders[id].status = "pending" /\ pending_orders[id].execute_at <= wall
            THEN /\ [pending_orders'[id] EXCEPT
                        !.status = "pending", !.actual_price = None,
                        !.cancellation_reason = None] = pending_orders[id]
                 /\ IF pending_orders[id].ticker \notin DOMAIN last'.current_prices
                    THEN /\ pending_orders'[id].status = "cancelled"
                         /\ pending_orders'[id].actual_price = None
                    ELSE IF Abs(last'.current_prices[pending_orders[id].ticker]
                                  - pending_orders[id].expected_price) * 100
                               > pending_orders[id].expected_price
                    THEN /\ pending_orders'[id].status = "cancelled"
                         /\ pending_orders'[id].actual_price = None
                    ELSE /\ pending_orders'[id].status = "ready"
                         /\ pending_orders'[id].cancellation_reason = None
                         /\ pending_orders'[id].actual_price =
                               Some(last'.current_prices[pending_orders[id].ticker])
            ELSE pending_orders'[id] = pending_orders[id]]_vars

\* one check made an order ready at a price exactly 1% above the expected one and
\* cancelled another for which it was given no price
C19_Witness ==
    /\ last.op = "check_ready_orders"
    /\ Len(last.result) = 1
    /\ last.result[1].status = "ready"
    /\ (last.result[1].actual_price[1] - last.result[1].expected_price) * 100
          = last.result[1].expected_price
    /\ \E b \in DOMAIN pending_orders :
        /\ pending_orders[b].status = "cancelled"
        /\ pending_orders[b].cancellation_reason = Some([kind |-> "no_current_price"])
        /\ pending_orders[b].ticker \notin DOMAIN last.current_prices

\* C20: execute_order succeeds only on an order whose status is ready and
\* cancel_order only on an order whose status is pending; called on an unknown id or
\* on an order in any other status they return None / False and change no order
C20_ExecuteAndCancelGuards ==
    [][/\ last'.op = "execute_order" =>
            IF /\ last'.order_id \in DOMAIN pending_orders
               /\ pending_orders[last'.order_id].status = "ready"
            THEN /\ last'.result = Some(last'.order_id)
                 /\ pending_orders' =
                       [pending_orders EXCEPT ![last'.order_id].status = "executed",
                                              ![last'.order_id].executed_at = Some(wall)]
            ELSE /\ last'.result = None
                 /\ pending_orders' = pending_orders
       /\ last'.op = "cancel_order" =>
            IF /\ last'.order_id \in DOMAIN pending_orders
               /\ pending_orders[last'.order_id].status = "pending"
            THEN /\ last'.result = TRUE
                 /\ pending_orders' =
                       [pending_orders EXCEPT
                           ![last'.order_id].status = "cancelled",
                           ![last'.order_id].cancellation_reason = Some([kind |-> "manual"])]
            ELSE /\ last'.result = FALSE
                 /\ pending_orders' = pending_orders]_vars

\* a manual cancel of a ready order was refused, next to an order that is still
\* pending
C20_Witness ==
    /\ last.op = "cancel_order"
    /\ last.result = FALSE
    /\ last.order_id \in DOMAIN pending_orders
    /\ pending_orders[last.order_id].status = "ready"
    /\ pending_orders[last.order_id].cancellation_reason = None
    /\ \E b \in DOMAIN pending_orders : pending_orders[b].status = "pending"

\* C21: cleanup_old_orders removes exactly the orders whose status is executed or
\* cancelled and whose creation time is older than the retention horizon of 24
\* hours; pending and ready orders are never removed whatever their age, and no
\* remaining order's fields change
C21_CleanupRemovesOldTerminalOrders ==
    [][last'.op = "cleanup_old_orders" =>
        /\ DOMAIN pending_orders' =
              { id \in DOMAIN pending_orders :
                  \/ pending_orders[id].status \in {"pending", "ready"}
                  \/ pending_orders[id].created_at >= wall - 24 * 3600 }
        /\ \A id \in DOMAIN pending_orders' : pending_orders'[id] = pending_orders[id]]_vars

\* after a day and a second a cleanup has removed one of the two orders created at the
\* start and kept the other, which was ready and never executed
C21_Witness ==
    /\ last.op = "cleanup_old_orders"
    /\ order_counter = 2
    /\ wall = 86401
    /\ Cardinality(DOMAIN pending_orders) = 1
    /\ \A id \in DOMAIN pending_orders :
        /\ pending_orders[id].status = "ready"
        /\ pending_orders[id].created_at = 0

(***************************************************************************)
(* The ledger with the execution costs disabled (TestingConfig), called    *)
(* by hand: the caller gives a margin of 10 roubles per lot, no ATR and no *)
(* levels, at a price of 100 roubles on its first, third, ... call and of  *)
(* 110 roubles on the others.                                              *)
(***************************************************************************)
HandLots == {-2, 0, 2}

HandPrice == IF ncalls % 2 = 0 THEN 10000 ELSE 11000

HandMarginPerLot == Some(1000)

InitHand == InitWith(TestingConfig)

HandCall ==
    \E ticker \in Tickers, target_lots \in HandLots :
        update_position(ticker, target_lots, HandPrice, None, None, HandMarginPerLot,
                        None, Rat(1, 1))

NextHand ==
    \/ HandCall
    \/ Tick

SpecHand == InitHand /\ [][NextHand]_vars

TradingSlippage ==
    [ enabled |-> TRUE,
      base_slippage_percent |-> Rat(2, 1),
      volume_factor_per_10_lots |-> Rat(1, 1),
      volatility_multiplier |-> Rat(2, 1),
      max_slippage_percent |-> Rat(50, 1) ]

TradingSpread ==
    [ enabled |-> TRUE,
      base_spread_percent |-> Rat(3, 1),
      volatility_multiplier |-> Rat(3, 2),
      min_spread_percent |-> Rat(1, 1),
      max_spread_percent |-> Rat(10, 1) ]

SlippageConfigs ==
    { TradingSlippage, RealisticConfig.SLIPPAGE_CONFIG, TestingConfig.SLIPPAGE_CONFIG }

SpreadConfigs ==
    { TradingSpread, RealisticConfig.SPREAD_CONFIG, TestingConfig.SPREAD_CONFIG }

\* expected and mid prices, in kopecks
CostPrices == {10000, 40000}

CostLots == {-10, 1, 10, 30}

Directions == {"buy", "sell"}

\* <<atr, avg_atr>>: no ATR, no average, a zero average, a calm, a level, a
\* doubled and a thirty-fold ATR
VolatilityContexts ==
    { <<None, None>>, <<Some(20), None>>, <<Some(20), Some(Rat(0, 1))>>,
      <<Some(5), Some(Rat(10, 1))>>, <<Some(10), Some(Rat(10, 1))>>,
      <<Some(20), Some(Rat(20, 2))>>, <<Some(300), Some(Rat(10, 1))>> }

\* what random.uniform(0.8, 1.2) may return: both ends and the middle
Jitters == RandomFactors \cup {Rat(1, 1)}

\* min_price_increment, in kopecks: none, zero (ignored), and three tick sizes
TickSizes == {None, Some(0), Some(100), Some(300), Some(800)}

cost_calculate_slippage ==
    \E ss \in SlippageConfigs, expected_price \in CostPrices, lots \in CostLots,
       direction \in Directions, v \in VolatilityContexts, random_factor \in Jitters :
        /\ last = NoCall
        /\ last' = [ op |-> "calculate_slippage", ss |-> ss,
                     expected_price |-> expected_price, lots |-> lots,
                     direction |-> direction, atr |-> v[1], avg_atr |-> v[2],
                     random_factor |-> random_factor,
                     result |-> calculate_slippage(ss, expected_price, lots, direction,
                                                   v[1], v[2], random_factor) ]
        /\ UNCHANGED <<cfg, clock, ledger, initial_balance, risk_manager, snapshot, ncalls, orders, in_flight>>

cost_calculate_spread ==
    \E sc \in SpreadConfigs, mid_price \in CostPrices, v \in VolatilityContexts,
       min_price_increment \in TickSizes :
        /\ last = NoCall
        /\ last' = [ op |-> "calculate_spread", sc |-> sc, mid_price |-> mid_price,
                     atr |-> v[1], avg_atr |-> v[2],
                     min_price_increment |-> min_price_increment,
                     result |-> calculate_spread(sc, mid_price, v[1], v[2],
                                                 min_price_increment) ]
        /\ UNCHANGED <<cfg, clock, ledger, initial_balance, risk_manager, snapshot, ncalls, orders, in_flight>>

cost_get_execution_price ==
    \E sc \in SpreadConfigs, mid_price \in CostPrices, direction \in Directions,
       v \in VolatilityContexts, min_price_increment \in TickSizes :
        /\ last = NoCall
        /\ last' = [ op |-> "get_execution_price", sc |-> sc, mid_price |-> mid_price,
                     direction |-> direction, atr |-> v[1], avg_atr |-> v[2],
                     min_price_increment |-> min_price_increment,
                     result |-> get_execution_price(sc, mid_price, direction, v[1], v[2],
                                                    min_price_increment) ]
        /\ UNCHANGED <<cfg, clock, ledger, initial_balance, risk_manager, snapshot, ncalls, orders, in_flight>>

InitCost == InitWith(RealisticConfig)

NextCost ==
    \/ cost_calculate_slippage
    \/ cost_calculate_spread
    \/ cost_get_execution_price

SpecCost == InitCost /\ [][NextCost]_vars

\* C24: for every positive expected price, lot count, volatility context and
\* jitter in [0.8, 1.2], calculate_slippage returns a price at or above the
\* expected price for a buy and at or below it for a sell.
C24_SlippageIsAdverse ==
    last.op = "calculate_slippage" =>
        /\ last.direction = "buy" => last.result >= last.expected_price
        /\ last.direction = "sell" => last.result <= last.expected_price

\* a buy of 30 lots in a doubled ATR with the lowest jitter: 2% + 3% + 4% = 9%,
\* times 0.8, is 7.2% above the expected price
C24_Witness ==
    /\ last.op = "calculate_slippage"
    /\ last.ss = TradingSlippage
    /\ last.direction = "buy"
    /\ last.lots = 30
    /\ last.atr = Some(20) /\ last.avg_atr = Some(Rat(20, 2))
    /\ last.random_factor = Rat(4, 5)
    /\ last.expected_price = 10000
    /\ last.result = 10720

\* the price the same calculator gives the opposite direction, the mid price
\* and the volatility context being those of the call last records
OppositePrice ==
    get_execution_price(last.sc, last.mid_price,
                        IF last.direction = "buy" THEN "sell" ELSE "buy",
                        last.atr, last.avg_atr, last.min_price_increment)

\* C25, as stated: for the same mid price and volatility context the price of a
\* buy is strictly greater than the price of a sell, for every configuration
\* of base, min and max spread the calculator accepts.
C25_BuyStrictlyAboveSell ==
    (last.op = "get_execution_price" /\ last.direction = "buy") =>
        last.result > OppositePrice

SpreadIsPositive ==
    \/ last.sc.min_spread_percent.n > 0
    \/ last.min_price_increment /= None /\ last.min_price_increment[1] > 0

\* C25, amended: the price of a buy is strictly greater than the price of a sell
\* for every configuration whose min spread is positive and whenever a positive
\* tick size is supplied; with the all-zero configuration and no tick size the
\* two prices are equal.
C25_BuyAboveSellWhenSpreadPositive ==
    (last.op = "get_execution_price" /\ last.direction = "buy") =>
        /\ SpreadIsPositive => last.result > OppositePrice
        /\ (last.sc = TestingConfig.SPREAD_CONFIG /\ ~SpreadIsPositive)
               => last.result = OppositePrice

\* a buy at 100.00 in a doubled ATR: the spread is 3% + 4.5% = 7.5%, the ask
\* 103.75 and the bid 96.25
C25_Witness ==
    /\ last.op = "get_execution_price"
    /\ last.sc = TradingSpread
    /\ last.direction = "buy"
    /\ last.mid_price = 10000
    /\ last.atr = Some(20) /\ last.avg_atr = Some(Rat(20, 2))
    /\ last.min_price_increment = None
    /\ last.result = 10375
    /\ OppositePrice = 9625

\* mid_price x spread_percent of the call last records, before any rounding:
\* the fraction n / d of kopecks
UnroundedSpread ==
    LET pct == spread_percent(last.sc, last.atr, last.avg_atr)
    IN  Rat(last.mid_price * pct.n, pct.d * 100)

TickSupplied ==
    /\ last.op = "calculate_spread"
    /\ last.min_price_increment /= None
    /\ last.min_price_increment[1] > 0

\* C27, as stated: with a tick size, calculate_spread returns a whole multiple
\* of the tick that is at least one tick and never below the unrounded spread
\* mid x spread_pct (rounded up to the next tick, not to the nearest).
C27_SpreadRoundedUp ==
    TickSupplied =>
        LET tick == last.min_price_increment[1]
            u    == UnroundedSpread
        IN  /\ last.result % tick = 0
            /\ last.result >= tick
            /\ last.result * u.d >= u.n

\* C27, amended: with a tick size, calculate_spread returns a whole multiple of
\* the tick that is at least one tick and is the multiple nearest to the
\* unrounded spread, a tie going to the even multiple, so it may be below the
\* unrounded spread; only an unrounded spread below one tick gives one tick
\* whatever its distance.
C27_SpreadRoundedToNearest ==
    TickSupplied =>
        LET tick == last.min_price_increment[1]
            u    == UnroundedSpread
            off  == Abs(last.result * u.d - u.n)
        IN  /\ last.result % tick = 0
            /\ last.result >= tick
            /\ \/ last.result = tick /\ u.n < tick * u.d
               \/ /\ 2 * off <= tick * u.d
                  /\ 2 * off = tick * u.d => (last.result \div tick) % 2 = 0

\* a mid price of 100.00 in a doubled ATR with a tick of 3.00: the unrounded
\* spread of 7.50 is two and a half ticks and comes back as two ticks, 6.00
C27_Witness ==
    /\ TickSupplied
    /\ last.sc = TradingSpread
    /\ last.mid_price = 10000
    /\ last.atr = Some(20) /\ last.avg_atr = Some(Rat(20, 2))
    /\ last.min_price_increment = Some(300)
    /\ UnroundedSpread = Rat(3000000, 4000)
    /\ last.result = 600

\* a call that filled: update_position added its record to the history
Filled == Len(history') = Len(history) + 1

\* the direction of the fill NewRecord describes
FillDirection ==
    IF NewRecord.action = "close" THEN close_direction(current_pos(NewRecord.ticker))
    ELSE open_direction(NewRecord.lots)

\* the price of the fill NewRecord describes after the spread and before the
\* slippage: what the spread calculator returns for the mid price of the call
SpreadAdjustedPrice ==
    get_execution_price(cfg.SPREAD_CONFIG, NewRecord.expected_price.decimal, FillDirection,
        Caller[NewRecord.ticker].atr,
        AverageAtr(atr_history', NewRecord.ticker, Caller[NewRecord.ticker].atr), None)

\* C26: for each fill the spread is applied to the mid price and the slippage
\* to the spread-adjusted price, total_spread_cost grows by
\* |spread-adjusted price - mid| x |lots| and total_slippage_cost by
\* |final price - spread-adjusted price| x |lots|, with no spread component.
C26_CostsAccumulatedSeparately ==
    [][(Filled /\ cfg.SPREAD_CONFIG.enabled /\ cfg.SLIPPAGE_CONFIG.enabled) =>
        LET mid   == NewRecord.expected_price.decimal
            final == NewRecord.execution_price.decimal
            lots  == Abs(NewRecord.lots)
        IN  /\ total_spread_cost' - total_spread_cost
                   = Abs(SpreadAdjustedPrice - mid) * lots
            /\ total_slippage_cost' - total_slippage_cost
                   = Abs(final - SpreadAdjustedPrice) * lots]_vars

\* one fill with spread and slippage enabled: the slippage counter holds the
\* whole distance from the mid price to the fill price, spread included
C26_Witness ==
    /\ cfg = RealisticConfig
    /\ Len(history) = 1
    /\ total_spread_cost > 0
    /\ total_slippage_cost =
           Abs(history[1].execution_price.decimal - history[1].expected_price.decimal)
               * Abs(history[1].lots)
    /\ total_slippage_cost > total_spread_cost

(***************************************************************************)
(* The ATR history at its limit.  The ledger starts with 98, 99 or 100     *)
(* values recorded for SiH6, the k-th being k: what that many opens        *)
(* refused for insufficient funds leave behind with spread, slippage and   *)
(* risk disabled (line 256 has recorded the ATR, line 346 returns with     *)
(* nothing else changed and nothing written).  Every call for SiH6 then   *)
(* brings an ATR not seen before.                                          *)
(***************************************************************************)
RecordedBefore == {98, 99, 100}

AtrFeed == 500 + ncalls

\* SiH6 is traded on signals and every call brings its ATR; BRJ6 is traded by
\* hand, with no ATR or with 0
AtrOf(ticker) == IF ticker = "SiH6" THEN {Some(AtrFeed)} ELSE {None, Some(0)}

AtrCall ==
    \E ticker \in Tickers, target_lots \in {-1, 0, 1} :
        \E atr \in AtrOf(ticker) :
            update_position(ticker, target_lots, last_price(ticker), None, None,
                            Caller[ticker].margin_per_lot, atr, Rat(1, 1))

InitAtr == \E n \in RecordedBefore : InitLedger(TestingConfig, [SiH6 |-> [k \in 1..n |-> k]])

NextAtr ==
    \/ AtrCall
    \/ Tick

SpecAtr == InitAtr /\ [][NextAtr]_vars

\* the ATR values of ticker t before the step
AtrBefore(t) == IF t \in DOMAIN atr_history THEN atr_history[t] ELSE << >>

\* the ATR values of ticker t after the step
AtrAfter(t) == IF t \in DOMAIN atr_history' THEN atr_history'[t] ELSE << >>

\* the call of the step went past the checks of lines 232-252
PassedChecks ==
    /\ ncalls' = ncalls + 1
    /\ last'.outcome \notin {"noop", "market_closed", "invalid_size"}

\* C28: after any sequence of update_position calls every ticker's atr_history
\* holds at most 100 values, the most recently recorded ones in arrival order:
\* a call records its ATR at the end, and what is before it is the old list,
\* without its oldest value when the old list was full.
C28_AtrHistoryKeepsLatestHundred ==
    [][/\ \A t \in DOMAIN atr_history' : Len(atr_history'[t]) <= 100
       /\ \A t \in Tickers \ {last'.ticker} : AtrAfter(t) = AtrBefore(t)
       /\ (PassedChecks /\ last'.ticker = "BRJ6") => AtrAfter("BRJ6") = AtrBefore("BRJ6")
       /\ (PassedChecks /\ last'.ticker = "SiH6") =>
            LET old == AtrBefore("SiH6")
                new == AtrAfter("SiH6")
            IN  /\ new /= << >>
                /\ new[Len(new)] = AtrFeed
                /\ SubSeq(new, 1, Len(new) - 1)
                       = IF Len(old) < 100 THEN old ELSE Tail(old)]_vars

\* the hundred values 1..100 were recorded and the first call brought 500: the
\* history is 2..100 followed by 500
C28_Witness ==
    /\ ncalls = 1
    /\ "SiH6" \in DOMAIN atr_history
    /\ Len(atr_history["SiH6"]) = 100
    /\ \A k \in 1..99 : atr_history["SiH6"][k] = k + 1
    /\ atr_history["SiH6"][100] = 500

(***************************************************************************)
(* The ledger called with explicit levels and restarted on its file.       *)
(* update_position takes stop_loss and take_profit as optional Decimals    *)
(* and stores what it is given (lines 377-378): none, a level of 0, or a   *)
(* level near the price.                                                   *)
(***************************************************************************)
LevelsGiven(current_price) == {None, Some(0), Some(current_price - 400)}

LevelsCall ==
    \E ticker \in Tickers, target_lots \in {-1, 0, 1} :
        \E stop_loss \in LevelsGiven(last_price(ticker)),
           take_profit \in LevelsGiven(last_price(ticker)) :
            update_position(ticker, target_lots, last_price(ticker), stop_loss, take_profit,
                            Caller[ticker].margin_per_lot, Caller[ticker].atr, Rat(1, 1))

InitLevels == InitWith(TestingConfig)

NextLevels ==
    \/ ncalls < MaxStoreCalls /\ LevelsCall
    \/ restart

SpecLevels == InitLevels /\ [][NextLevels]_vars

\* every monetary or price field of the snapshot s is the string of a Decimal
MoneyAsDecimalStrings(s) ==
    /\ \A f \in {"balance", "initial_balance", "used_margin", "total_commission",
                 "total_slippage_cost", "total_spread_cost"} : Convertible(s[f])
    /\ \A k \in DOMAIN s.positions :
        /\ \A f \in {"avg_price", "margin", "accumulated_commission"} :
               Convertible(s.positions[k][f])
        /\ \A f \in {"stop_loss", "take_profit"} :
               s.positions[k][f] /= None => Convertible(s.positions[k][f][1])

\* C29: saving the ledger and loading it back is a round trip: the ledger
\* restored from the snapshot _save wrote has the same balance, counters,
\* histories and positions, with every field of every position, a stop_loss
\* or take_profit of 0 included, and every monetary or price field is stored
\* as a decimal string.
C29_SaveLoadRoundTrip ==
    [][(last'.op = "__init__" /\ snapshot = _save(Data)) =>
            /\ MoneyAsDecimalStrings(snapshot)
            /\ last'.outcome = "loaded"
            /\ Data' = Data]_vars

\* a position held with a stop_loss of 0 and saved: the file has no stop_loss
\* for it
C29_Witness ==
    /\ snapshot = _save(Data)
    /\ \E k \in DOMAIN positions :
        /\ positions[k].stop_loss = Some(0)
        /\ snapshot.positions[k].stop_loss = None
        /\ LoadedPositions(snapshot)[k].stop_loss = None

(***************************************************************************)
(* Performance statistics (src/analysis/performance_metrics.py), applied   *)
(* to lists of trades drawn from a bounded set.  A trade is a record whose *)
(* net_profit is the decimal string of a close record, or is absent; a     *)
(* float result is the rational it stands for, or inf.                     *)
(***************************************************************************)
MaxTrades == 3

inf == [inf |-> TRUE]

\* float(t.get('net_profit', 0))
net_profit_float(t) == IF t.net_profit = None THEN 0 ELSE Decimal(t.net_profit[1])

\* sum(float(t.get('net_profit', 0)) for t in trades if float(t.get('net_profit', 0)) > 0)
RECURSIVE gross_profit(_)
gross_profit(trades) ==
    IF trades = << >> THEN 0
    ELSE (IF net_profit_float(Head(trades)) > 0 THEN net_profit_float(Head(trades)) ELSE 0)
         + gross_profit(Tail(trades))

\* sum(... for t in trades if float(t.get('net_profit', 0)) < 0), before abs()
RECURSIVE sum_of_losses(_)
sum_of_losses(trades) ==
    IF trades = << >> THEN 0
    ELSE (IF net_profit_float(Head(trades)) < 0 THEN net_profit_float(Head(trades)) ELSE 0)
         + sum_of_losses(Tail(trades))

gross_loss(trades) == Abs(sum_of_losses(trades))

\* the bug of answering 0.0 whenever there is nothing to divide by
calculate_profit_factor_zero_without_loss(trades) ==
    IF trades = << >> THEN Rat(0, 1)
    ELSE IF gross_loss(trades) = 0 THEN Rat(0, 1)
    ELSE Rat(gross_profit(trades), gross_loss(trades))

calculate_profit_factor(trades) ==
    IF trades = << >> THEN Rat(0, 1)
    ELSE IF gross_loss(trades) = 0
    THEN (IF gross_profit(trades) > 0 THEN inf ELSE Rat(0, 1))
    ELSE Rat(gross_profit(trades), gross_loss(trades))

\* net_profit of a trade, in kopecks: losses, break-even, wins, or no such key
TradeOutcomes ==
    { [net_profit |-> None] } \cup
    { [net_profit |-> Some(str(x))] : x \in {-2000, -500, 0, 1000, 3000} }

TradeLists == UNION { [1..n -> TradeOutcomes] : n \in 0..MaxTrades }

metrics_calculate_profit_factor ==
    \E trades \in TradeLists :
        /\ last = NoCall
        /\ last' = [ op |-> "calculate_profit_factor", trades |-> trades,
                     result |-> calculate_profit_factor(trades) ]
        /\ UNCHANGED <<cfg, clock, ledger, initial_balance, risk_manager, snapshot, ncalls, orders, in_flight>>

MaxBalances == 4

\* the loop of calculate_max_drawdown from element i of the array on; st holds
\* peak, max_dd, max_dd_value, peak_value and trough_value
RECURSIVE drawdown_scan(_, _, _)
drawdown_scan(balance_array, i, st) ==
    IF i > Len(balance_array) THEN st
    ELSE LET value == balance_array[i]
             peak  == IF value > st.peak THEN value ELSE st.peak
             dd    == IF peak > 0 THEN Rat(peak - value, peak) ELSE Rat(0, 1)
         IN  drawdown_scan(balance_array, i + 1,
                 IF ~RLeq(dd, st.max_dd)
                 THEN [ peak |-> peak, max_dd |-> dd, max_dd_value |-> peak - value,
                        peak_value |-> peak, trough_value |-> value ]
                 ELSE [st EXCEPT !.peak = peak])

\* the bug of reporting the running peak the scan ends with
drawdown_report_last_peak(st) ==
    [ max_drawdown_percent |-> Rat(st.max_dd.n * 100, st.max_dd.d),
      max_drawdown_value |-> st.max_dd_value,
      peak_value |-> st.peak,
      trough_value |-> st.trough_value ]

\* the dictionary calculate_max_drawdown returns, from the state the loop ends in
drawdown_report(st) ==
    [ max_drawdown_percent |-> Rat(st.max_dd.n * 100, st.max_dd.d),
      max_drawdown_value |-> st.max_dd_value,
      peak_value |-> st.peak_value,
      trough_value |-> st.trough_value ]

calculate_max_drawdown(balances) ==
    IF Len(balances) < 2
    THEN [ max_drawdown_percent |-> Rat(0, 1), max_drawdown_value |-> 0,
           peak_value |-> 0, trough_value |-> 0 ]
    ELSE drawdown_report(drawdown_scan(balances, 1,
             [ peak |-> balances[1], max_dd |-> Rat(0, 1), max_dd_value |-> 0,
               peak_value |-> balances[1], trough_value |-> balances[1] ]))

\* balances, in kopecks
BalanceLevels == {0, 1000, 2000, 4000}

BalanceHistories == UNION { [1..n -> BalanceLevels] : n \in 0..MaxBalances }

metrics_calculate_max_drawdown ==
    \E balance_array \in BalanceHistories :
        /\ last = NoCall
        /\ last' = [ op |-> "calculate_max_drawdown", balance_history |-> balance_array,
                     result |-> calculate_max_drawdown(balance_array) ]
        /\ UNCHANGED <<cfg, clock, ledger, initial_balance, risk_manager, snapshot, ncalls, orders, in_flight>>

InitMetrics == InitWith(RealisticConfig)

NextMetrics ==
    \/ metrics_calculate_profit_factor
    \/ metrics_calculate_max_drawdown

SpecMetrics == InitMetrics /\ [][NextMetrics]_vars

\* the net profits of the trades last records, a trade without one counting 0
NetProfits ==
    [i \in 1..Len(last.trades) |->
        IF last.trades[i].net_profit = None THEN 0 ELSE last.trades[i].net_profit[1].decimal]

Winning == { i \in 1..Len(last.trades) : NetProfits[i] > 0 }

Losing == { i \in 1..Len(last.trades) : NetProfits[i] < 0 }

\* the sum of f over the indices in S
RECURSIVE SumOver(_, _)
SumOver(f, S) ==
    IF S = {} THEN 0
    ELSE LET i == CHOOSE j \in S : TRUE IN f[i] + SumOver(f, S \ {i})

\* C30: calculate_profit_factor returns gross profit over gross loss of the
\* trades' net_profit; 0.0 for an empty list and when no trade wins and none
\* loses; +infinity when a trade wins and none loses.
C30_ProfitFactor ==
    last.op = "calculate_profit_factor" =>
        /\ (Winning = {} /\ Losing = {}) => last.result = Rat(0, 1)
        /\ (Winning /= {} /\ Losing = {}) => last.result = inf
        /\ Losing /= {} =>
            /\ last.result /= inf
            /\ last.result.d > 0
            /\ last.result.n * (-SumOver(NetProfits, Losing))
                   = SumOver(NetProfits, Winning) * last.result.d

\* wins of 30.00 and 10.00 around a loss of 20.00: the factor is 40 / 20
C30_Witness ==
    /\ last.op = "calculate_profit_factor"
    /\ NetProfits = <<3000, -2000, 1000>>
    /\ last.result = Rat(4000, 2000)

(***************************************************************************)
(* Two callers on one ledger.  update_position takes no lock, so a caller  *)
(* that has passed the sufficiency check of lines 343-346 can be overtaken *)
(* before it reserves at lines 356-357.  begin_open is an open up to the   *)
(* check it passes, finish_open the rest of it; in_flight holds what the   *)
(* call has in its local variables in between.  A call that runs without   *)
(* being overtaken is the single step update_position.                     *)
(***************************************************************************)
Threads == {1, 2}

RaceLots == {-2, 0, 1}

\* the calls that have begun, ended or not
Begun == ncalls + Cardinality(DOMAIN in_flight)

\* lines 211-346 of an open that passes every check: the ATR is recorded, the
\* RiskManager consulted and the fill priced, and the call stops with its locals
begin_open(thread, ticker, target_lots, current_price, stop_loss, take_profit, margin_per_lot, atr, random_factor) ==
    /\ Begun < MaxCalls
    /\ thread \notin DOMAIN in_flight
    /\ \E r \in {update_position_result(ticker, target_lots, current_price, stop_loss,
                                        take_profit, margin_per_lot, atr, random_factor)} :
        /\ r.outcome = "update"
        /\ atr_history' = r.data.atr_history
        /\ total_spread_cost' = r.data.total_spread_cost
        /\ total_slippage_cost' = r.data.total_slippage_cost
        /\ risk_manager' = r.risk_manager
        /\ in_flight' = DictSet(in_flight, thread,
               [ ticker |-> ticker, target_lots |-> target_lots,
                 current_price |-> current_price, stop_loss |-> stop_loss,
                 take_profit |-> take_profit, current_pos |-> current_pos(ticker),
                 execution_price |-> r.execution_price,
                 margin_per_lot |-> r.margin_per_lot,
                 required_margin |-> r.required_margin,
                 available_balance |-> available_balance(balance, used_margin) ])
    /\ UNCHANGED <<cfg, clock, balance, used_margin, positions, history, balance_history,
                   next_trade_id, total_commission, initial_balance, snapshot, last,
                   ncalls, orders>>

\* lines 349-400 of the open the thread has in flight, on the ledger as it is now
finish_open(thread) ==
    /\ thread \in DOMAIN in_flight
    /\ LET c          == in_flight[thread]
           commission == commission_on(open_turnover(c.execution_price,
                                           diff_lots(c.target_lots, c.current_pos)),
                                       cfg.GENERAL_CONFIG.commission_rate)
           mdiff      == margin_diff(c.required_margin, c.current_pos)
           ids        == assign_trade_id(c.current_pos, next_trade_id)
           opened_at  == assign_opened_at(c.current_pos, timestamp)
       IN  /\ balance' = balance - (mdiff + commission)
           /\ used_margin' = used_margin + mdiff
           /\ total_commission' = total_commission + commission
           /\ next_trade_id' = ids.next_trade_id
           /\ positions' = DictSet(positions, c.ticker,
                  [ lots |-> c.target_lots, avg_price |-> c.execution_price,
                    stop_loss |-> c.stop_loss, take_profit |-> c.take_profit,
                    margin |-> c.required_margin, trade_id |-> Some(ids.trade_id),
                    opened_at |-> Some(opened_at),
                    accumulated_commission
                        |-> c.current_pos.accumulated_commission + commission ])
           /\ history' = append_record(history,
                  update_record(c.ticker, ids.trade_id, c.target_lots, c.current_price,
                                c.execution_price, c.stop_loss, c.take_profit,
                                c.required_margin, commission, timestamp))
           /\ last' = [ op |-> "update_position", ticker |-> c.ticker,
                        target_lots |-> c.target_lots, outcome |-> "update",
                        reason |-> "none", execution_price |-> c.execution_price,
                        margin_per_lot |-> c.margin_per_lot,
                        required_margin |-> c.required_margin ]
    /\ ncalls' = ncalls + 1
    /\ in_flight' = DictDel(in_flight, thread)
    /\ UNCHANGED <<cfg, clock, balance_history, total_slippage_cost, total_spread_cost,
                   atr_history, initial_balance, risk_manager, orders>>
    /\ snapshot' = _save(Data')

BeginCall ==
    \E thread \in Threads, ticker \in Tickers, target_lots \in RaceLots :
        begin_open(thread, ticker, target_lots, last_price(ticker), None, None,
                   Caller[ticker].margin_per_lot, Caller[ticker].atr, Rat(1, 1))

FinishCall == \E thread \in Threads : finish_open(thread)

\* a call nobody overtakes, by a thread that has none in flight
AtomicCall ==
    /\ Begun < MaxCalls
    /\ DOMAIN in_flight /= Threads
    /\ \E ticker \in Tickers, target_lots \in RaceLots :
        update_position(ticker, target_lots, last_price(ticker), None, None,
                        Caller[ticker].margin_per_lot, Caller[ticker].atr, Rat(1, 1))

InitRace == InitWith(TestingConfig)

NextRace ==
    \/ AtomicCall
    \/ BeginCall
    \/ FinishCall
    \/ Tick

SpecRace == InitRace /\ [][NextRace]_vars

\* the step writes the reservation of an open (lines 356-357)
Reserving == Filled /\ NewRecord.action = "update"

\* what the ledger has free before the step
FreeBalance == balance - used_margin

\* C22: an open that runs as one atomic step reserves no more than the ledger
\* has free when it reserves, and an open that is overtaken between its check
\* and its reservation has passed the check against the free balance it read:
\* only opens that interleave can pass the check against the same values with a
\* combined required margin above the free balance they read.
C22_OnlyInterleavedOpensOvercommit ==
    [][/\ (Reserving /\ in_flight' = in_flight) =>
              NewRecord.margin_reserved.decimal <= FreeBalance
       /\ \A t \in DOMAIN in_flight' :
              in_flight'[t].required_margin <= in_flight'[t].available_balance
       /\ \A t \in DOMAIN in_flight \ DOMAIN in_flight' :
              /\ Reserving
              /\ NewRecord.margin_reserved.decimal = in_flight[t].required_margin
              /\ in_flight[t].available_balance = FreeBalance
                     => NewRecord.margin_reserved.decimal <= FreeBalance]_vars

\* both threads have passed the check for two lots of BRJ6 against the same
\* free balance of 200 000.00, and together they require 380 000.00
C22_Witness ==
    /\ DOMAIN in_flight = Threads
    /\ in_flight[1].available_balance = in_flight[2].available_balance
    /\ in_flight[1].available_balance = balance - used_margin
    /\ in_flight[1].required_margin + in_flight[2].required_margin
           > in_flight[1].available_balance

\* the largest of the first k balances of the history last records
RECURSIVE RunningPeak(_)
RunningPeak(k) ==
    IF k = 1 THEN last.balance_history[1]
    ELSE IF last.balance_history[k] > RunningPeak(k - 1) THEN last.balance_history[k]
    ELSE RunningPeak(k - 1)

\* the history last records has an entry below the largest before it
Falls ==
    \E k \in 1..Len(last.balance_history) : last.balance_history[k] < RunningPeak(k)

\* the report of last describes one episode, the worst of the history: a trough
\* at some entry under the largest balance up to it, the value and the percent
\* being their distance, and no entry further under its running peak in proportion
WorstEpisodeReported ==
    LET r == last.result
        h == last.balance_history
    IN  /\ r.max_drawdown_value = r.peak_value - r.trough_value
        /\ r.max_drawdown_percent.d > 0
        /\ r.max_drawdown_percent.n * r.peak_value
               = 100 * r.max_drawdown_value * r.max_drawdown_percent.d
        /\ \E j \in 1..Len(h) : h[j] = r.trough_value /\ RunningPeak(j) = r.peak_value
        /\ \A k \in 1..Len(h) :
               (RunningPeak(k) - h[k]) * r.peak_value
                   <= (r.peak_value - r.trough_value) * RunningPeak(k)

AllZeros ==
    /\ last.result.max_drawdown_percent.n = 0
    /\ last.result.max_drawdown_value = 0
    /\ last.result.peak_value = 0
    /\ last.result.trough_value = 0

\* C31, as stated: calculate_max_drawdown reports the episode with the largest
\* (peak - value) / peak, all four figures being of that episode and the peak
\* the maximum of the history up to the trough, and reports all zeros for a
\* history of fewer than 2 entries or one that never falls below its running
\* peak.
C31_ZerosWithoutDrawdown ==
    last.op = "calculate_max_drawdown" =>
        IF Len(last.balance_history) < 2 \/ ~Falls THEN AllZeros
        ELSE WorstEpisodeReported

\* C31, amended: as stated, except that for a history of 2 or more entries
\* that never falls below its running peak only the percent and the value are
\* zero: the peak and the trough reported are both the first balance.
C31_WorstEpisodeOrFirstBalance ==
    last.op = "calculate_max_drawdown" =>
        IF Len(last.balance_history) < 2 THEN AllZeros
        ELSE IF ~Falls
        THEN /\ last.result.max_drawdown_percent.n = 0
             /\ last.result.max_drawdown_value = 0
             /\ last.result.peak_value = last.balance_history[1]
             /\ last.result.trough_value = last.balance_history[1]
        ELSE WorstEpisodeReported

\* 20.00 falls to 10.00, then 40.00 falls to 20.00: both are 50%, and the
\* first is the one reported
C31_Witness ==
    /\ last.op = "calculate_max_drawdown"
    /\ last.balance_history = <<2000, 1000, 4000, 2000>>
    /\ last.result = [ max_drawdown_percent |-> Rat(100000, 2000),
                       max_drawdown_value |-> 1000, peak_value |-> 2000,
                       trough_value |-> 1000 ]

\* the step is a call to close the position the ledger holds in the ticker
FullCloseCalled ==
    /\ ncalls' = ncalls + 1
    /\ last'.op = "update_position"
    /\ last'.target_lots = 0
    /\ last'.ticker \in DOMAIN positions

\* C32: a full close never consults the RiskManager: it is accepted whenever
\* the trading calendar allows trading, even while a limit is breached or
\* trading is paused, and it changes no RiskManager state.
C32_CloseBypassesRiskManager ==
    [][FullCloseCalled =>
        /\ risk_manager' = risk_manager
        /\ can_trade(now) => last'.outcome = "close"
        /\ ~can_trade(now) => last'.outcome = "market_closed"]_vars

\* trading is paused and the last call closed a position
C32_Witness ==
    /\ cfg.RISK_CONFIG.enabled
    /\ risk_manager.trading_paused
    /\ last.op = "update_position"
    /\ last.outcome = "close"
    /\ history /= << >>
    /\ history[Len(history)].action = "close"

\* the ids create_order can give
OrderIds == (1..MaxLiveOrders) \X ({0} \cup Instants)

IsPending(order_id) ==
    /\ order_id \in DOMAIN pending_orders
    /\ pending_orders[order_id].status = "pending"

\* the order is pending before the step and not after it
LeavesPending(order_id) ==
    /\ IsPending(order_id)
    /\ ~(/\ order_id \in DOMAIN pending_orders'
         /\ pending_orders'[order_id].status = "pending")

\* C33: while the clock advances and check_ready_orders is called again and
\* again, every created order eventually leaves the pending state; and a
\* pending order leaves that state in a step of check_ready_orders, to ready or
\* cancelled, or of cancel_order, and in no other step.
C33_PendingOrdersAreResolved ==
    /\ \A order_id \in OrderIds : IsPending(order_id) ~> ~IsPending(order_id)
    /\ [][\A order_id \in OrderIds :
            LeavesPending(order_id) =>
                /\ order_id \in DOMAIN pending_orders'
                /\ \/ /\ last'.op = "check_ready_orders"
                      /\ pending_orders'[order_id].status \in {"ready", "cancelled"}
                   \/ /\ last'.op = "cancel_order"
                      /\ last'.order_id = order_id
                      /\ pending_orders'[order_id].status = "cancelled"]_vars

\* check_ready_orders has returned an order that was pending until the last
\* instant, and no order is pending any more
C33_Witness ==
    /\ last.op = "check_ready_orders"
    /\ wall = LastInstant
    /\ Len(last.result) = 1
    /\ \E order_id \in DOMAIN pending_orders :
        /\ pending_orders[order_id].status = "ready"
        /\ pending_orders[order_id].execute_at > 3
    /\ \A order_id \in DOMAIN pending_orders : ~IsPending(order_id)

\* what the first k records of the history add to the funds of the ledger: the net
\* profit of a close, less the commission of an update
RECURSIVE RecordedFlow(_)
RecordedFlow(k) ==
    IF k = 0 THEN 0
    ELSE RecordedFlow(k - 1)
            + (IF history[k].action = "close" THEN history[k].net_profit.decimal
               ELSE 0 - history[k].commission.decimal)

\* C34: after any sequence of update_position calls on a fresh ledger, balance +
\* used_margin = initial_balance + the net_profit of all close records - the
\* commission of all update records, and initial_balance never changes.
C34_FundsAreConserved ==
    /\ [](balance + used_margin = initial_balance + RecordedFlow(Len(history)))
    /\ [][initial_balance' = initial_balance]_vars

\* a position was opened, resized and closed, with commissions paid and a profit
\* or a loss taken
C34_Witness ==
    /\ Len(history) = 3
    /\ history[1].action = "update" /\ history[1].commission.decimal > 0
    /\ history[2].action = "update"
    /\ history[2].lots /= history[1].lots
    /\ history[3].action = "close" /\ history[3].net_profit.decimal /= 0
    /\ balance /= initial_balance
    /\ used_margin = 0

(***************************************************************************)
(* The ledger under a limit of one open position, with two tickers to      *)
(* trade.                                                                  *)
(***************************************************************************)
SinglePositionConfig ==
    [RealisticConfig EXCEPT !.name = "single position",
                            !.RISK_CONFIG.max_open_positions = Cardinality(Tickers) - 1]

InitLimit == InitWith(SinglePositionConfig)

NextLimit ==
    \/ Call
    \/ Tick

SpecLimit == InitLimit /\ [][NextLimit]_vars

OpenPositions == Cardinality(DOMAIN positions)

\* C35: with the risk manager enabled and a ledger that starts with no
\* positions, the number of open positions never exceeds max_open_positions.
C35_OpenPositionsWithinLimit ==
    cfg.RISK_CONFIG.enabled => OpenPositions <= cfg.RISK_CONFIG.max_open_positions

\* with one position open, at the limit, the opening of a second one was vetoed for
\* the count
C35_Witness ==
    /\ OpenPositions = cfg.RISK_CONFIG.max_open_positions
    /\ last.op = "update_position"
    /\ last.ticker \notin DOMAIN positions
    /\ last.outcome = "risk_veto"
    /\ last.reason = "position_count"

\* a call with a non-zero target, made when the ledger holds as many positions as
\* the limit allows
CalledAtTheLimit ==
    /\ cfg.RISK_CONFIG.enabled
    /\ OpenPositions = cfg.RISK_CONFIG.max_open_positions
    /\ ncalls' = ncalls + 1
    /\ last'.op = "update_position"
    /\ last'.target_lots /= 0

\* C36: when the number of open positions equals max_open_positions,
\* update_position with a non-zero target is rejected for every ticker, a resize
\* of a ticker that has an open position included (the veto, when a call gets to
\* the position rules, being that of the count), so that at the limit a
\* position can only be closed.
C36_LimitCountsTheResizedTicker ==
    [][/\ CalledAtTheLimit =>
            /\ last'.outcome \notin AcceptedMutations
            /\ positions' = positions
            /\ last'.outcome = "risk_veto" =>
                    last'.reason \in {"max_drawdown", "daily_loss", "position_count"}
            /\ (/\ last'.target_lots /= current_pos(last'.ticker).lots
                /\ can_trade(now)
                /\ validate_position_size(last'.target_lots)
                /\ ~risk_manager'.trading_paused)
                    => last'.outcome = "risk_veto" /\ last'.reason = "position_count"
       /\ (/\ cfg.RISK_CONFIG.enabled
           /\ OpenPositions = cfg.RISK_CONFIG.max_open_positions
           /\ positions' /= positions)
                => last'.outcome = "close" /\ last'.target_lots = 0]_vars

\* the resize of the one open position was vetoed for the count
C36_Witness ==
    /\ OpenPositions = cfg.RISK_CONFIG.max_open_positions
    /\ last.op = "update_position"
    /\ last.ticker \in DOMAIN positions
    /\ last.target_lots /= 0
    /\ last.target_lots /= positions[last.ticker].lots
    /\ last.outcome = "risk_veto"
    /\ last.reason = "position_count"

(***************************************************************************)
(* The ledger traded by hand with margins that take up to the whole        *)
(* balance.                                                                *)
(***************************************************************************)
\* the margin of a lot: that of the hand trades, and half of the initial balance
AllInMargins == {HandMarginPerLot, Some(TestingConfig.GENERAL_CONFIG.initial_balance \div 2)}

AllInCall ==
    \E ticker \in Tickers, target_lots \in HandLots, margin_per_lot \in AllInMargins :
        update_position(ticker, target_lots, HandPrice, None, None, margin_per_lot,
                        None, Rat(1, 1))

NextAllIn ==
    \/ AllInCall
    \/ Tick

SpecAllIn == InitHand /\ [][NextAllIn]_vars

\* the commission the last record of the history after the step carries
CommissionCharged == NewRecord.commission.decimal

\* C37: starting from a non-negative balance, an accepted open/resize never
\* leaves the balance negative: the margin reserved plus the commission
\* charged by the call is covered by the balance before the call.
C37_AcceptedOpenIsCovered ==
    [][(balance >= 0 /\ CallEnded({"update"})) =>
            /\ balance' >= 0
            /\ (used_margin' - used_margin) + CommissionCharged <= balance]_vars

\* an open was accepted whose margin was the whole balance, and the commission
\* has taken the balance below zero
C37_Witness ==
    /\ last.op = "update_position"
    /\ last.outcome = "update"
    /\ Len(history) = 1
    /\ last.required_margin = initial_balance
    /\ used_margin = initial_balance
    /\ balance = 0 - history[1].commission.decimal
    /\ balance < 0

\* C38: a trade id identifies one life of a position, from its opening to its
\* close: next_trade_id is greater than every trade_id in positions and in the
\* history, two open positions never share a trade_id, a trade_id has at most
\* one close record, and no record with that trade_id follows its close record.
C38_TradeIdIsOneLifecycle ==
    /\ \A ticker \in DOMAIN positions : positions[ticker].trade_id[1] < next_trade_id
    /\ \A i \in 1..Len(history) : history[i].trade_id[1] < next_trade_id
    /\ \A a, b \in DOMAIN positions :
            a /= b => positions[a].trade_id /= positions[b].trade_id
    /\ \A i, j \in 1..Len(history) :
            (i < j /\ history[i].action = "close")
                => history[j].trade_id /= history[i].trade_id
    /\ \A ticker \in DOMAIN positions : \A i \in 1..Len(history) :
            history[i].action = "close"
                => history[i].trade_id /= positions[ticker].trade_id

\* a ledger built on a file whose used_margin could not be read holds two open
\* positions under the same id
C38_Witness ==
    /\ last.op = "update_position"
    /\ last.outcome = "update"
    /\ \E a, b \in DOMAIN positions :
        /\ a /= b
        /\ positions[a].trade_id = positions[b].trade_id
    /\ Len(history) = 2
    /\ history[1].trade_id = history[2].trade_id
    /\ history[1].ticker /= history[2].ticker

\* the ids of the orders in the list the last call of check_ready_orders returned
ReturnedReady(call) ==
    IF call.op = "check_ready_orders"
    THEN { call.result[k].order_id : k \in 1..Len(call.result) }
    ELSE {}

\* C39: over any sequence of check_ready_orders calls an order is in the
\* returned list of at most one call: a call returns only orders that were
\* pending before it and leaves them ready, an order that is not pending is
\* never pending again, and the id of an order is never given to another.
C39_ReturnedReadyOnce ==
    [][/\ \A order_id \in ReturnedReady(last') :
            /\ IsPending(order_id)
            /\ pending_orders'[order_id].status = "ready"
       /\ \A order_id \in DOMAIN pending_orders \cap DOMAIN pending_orders' :
            pending_orders[order_id].status /= "pending"
                => pending_orders'[order_id].status /= "pending"
       /\ \A order_id \in DOMAIN pending_orders : order_id[1] <= order_counter
       /\ \A order_id \in DOMAIN pending_orders' \ DOMAIN pending_orders :
            order_id[1] > order_counter]_vars

\* a call returned nothing although an order was ready, due and priced as
\* expected: it had been returned by an earlier call
C39_Witness ==
    /\ last.op = "check_ready_orders"
    /\ last.result = << >>
    /\ \E order_id \in DOMAIN pending_orders :
        /\ pending_orders[order_id].status = "ready"
        /\ pending_orders[order_id].ticker \in DOMAIN last.current_prices
        /\ last.current_prices[pending_orders[order_id].ticker]
              = pending_orders[order_id].expected_price

(***************************************************************************)
(* The ledger with its queries, called between the calls of                *)
(* update_position at the prices of the feed.                              *)
(***************************************************************************)
Queries ==
    \/ get_portfolio_summary
    \/ get_performance_metrics
    \/ \E ticker \in Tickers : vp_check_stop_loss_take_profit(ticker, last_price(ticker))

NextQueries ==
    \/ ncalls < MaxStoreCalls /\ Call
    \/ Queries
    \/ Tick

SpecQueries == InitWith(RealisticConfig) /\ [][NextQueries]_vars

\* a step of a query: no call of update_position is counted and no time passes
QueryStep == ncalls' = ncalls /\ clock' = clock

\* the RiskManager but for its watermark and its daily baseline
BesidesWatermarkAndBaseline(rm) ==
    [rm EXCEPT !.peak_balance = 0, !.daily_start_balance = 0, !.daily_reset_date = None]

\* C40: get_portfolio_summary, get_performance_metrics and
\* check_stop_loss_take_profit leave every field of the ledger and the saved
\* snapshot unchanged; of the RiskManager they may change the peak balance and
\* the daily baseline only.
C40_QueriesChangeOnlyWatermarks ==
    [][QueryStep =>
        /\ ledger' = ledger
        /\ initial_balance' = initial_balance
        /\ snapshot' = snapshot
        /\ BesidesWatermarkAndBaseline(risk_manager') = BesidesWatermarkAndBaseline(risk_manager)]_vars

\* with a position open, its margin taken from the balance, the queries have
\* moved the watermark and the baseline to the balance and check_stop_loss_take_profit
\* has answered
C40_Witness ==
    /\ DOMAIN positions /= {}
    /\ history /= << >>
    /\ balance < initial_balance
    /\ risk_manager.peak_balance = initial_balance
    /\ risk_manager.daily_start_balance = balance
    /\ risk_manager.daily_reset_date = Some(today)
    /\ ~risk_manager.trading_paused
    /\ last.op = "check_stop_loss_take_profit"
    /\ last.outcome = "take_profit"

====
